---- MODULE Spec2Model ----
(***************************************************************************)
(* Model of porto-data's cross-file consistency validator                  *)
(* (scripts/validators/links.py, scripts/validators/helpers.py) and of the *)
(* two result reporters (scripts/validators/links.py, cli/commands/        *)
(* validate.py).                                                           *)
(*                                                                         *)
(* Python values are encoded as follows.                                   *)
(*   - a str is a TLA+ string; None (and JSON null) is the string None;    *)
(*   - a dict is a record with a field "keys", the set of keys it holds,   *)
(*     and one field per key the code reads; d.get(k, dflt) is Get;        *)
(*   - a dict whose iteration order matters (links, dependencies) is a     *)
(*     sequence of [key, value] pairs in insertion order;                  *)
(*   - a list is a sequence; a set is a set, and iterating over a set of   *)
(*     str visits it in an order fixed by the process's hash seed;         *)
(*   - a finding (an f-string) is a record [kind, args]: kind names the    *)
(*     message template, args the values formatted into it, each a         *)
(*     sequence of strings.                                                *)
(***************************************************************************)
EXTENDS Naturals, Sequences, FiniteSets, TLC

VARIABLES
    dir,        \* the data directory on disk: kind, per-file status, documents
    seed,       \* the running process's str hash seed (set iteration order)
    pc,         \* "start" | "constructed" | "raised"
    self,       \* the DataLinksValidator instance
    reads,      \* log of load_json calls made for this instance
    ran,        \* rules started by the last validate_all call, in order
    returned,   \* what the last validate_all call returned
    exc,        \* the exception the last call raised, or None
    calls,      \* number of load_data / validate_all calls on this instance
    prev,       \* findings returned by an earlier instance on the same directory
    exit_code   \* the code most recently returned by a reporter

vars == <<dir, seed, pc, self, reads, ran, returned, exc, calls, prev, exit_code>>

----------------------------------------------------------------------------
\* Bounds of the model.

\* calls of load_data / validate_all made on one validator instance
MaxCalls == 2
\* items in one service price's history
MaxHistory == 2
\* findings per category fed to the reporters
MaxFindings == 2

----------------------------------------------------------------------------
\* Python values.

None == "None"

\* d.get(k, dflt)
Get(d, k, dflt) == IF k \in d.keys THEN d[k] ELSE dflt

EmptyDict == [keys |-> {}]

\* The value of an attribute that holds None (not loaded, or a JSON null).
PyNone == [tag |-> "None", keys |-> {}]

IsNone(x) == x.tag = "None"

\* bool(x) of an Optional[dict]: None and the empty dict are falsy.
Truthy(x) == x.tag = "dict" /\ x.keys # {}

\* Every str the model formats or sorts, in Python's str order (code points).
Lex ==
    << "D1", "D2", "EUR", "None", "P1", "P2", "S1", "S2", "W1", "W2", "Z1", "Z2",
       "cents", "data_links.json", "description", "dimensions.json",
       "features.json", "g", "kg", "mm", "other.json", "price",
       "prices.json", "prices.other", "prices.product_prices", "product_id",
       "products.json", "restrictions.json", "services.json", "weight_tier",
       "weight_tiers.json", "zone", "zones.json" >>

Rank(s) == CHOOSE i \in 1..Len(Lex) : Lex[i] = s

RECURSIVE SortedBy(_, _)
\* The elements of S as a sequence, ascending in the order the sequence ord lists.
SortedBy(ord, S) ==
    IF S = {} THEN << >>
    ELSE LET lo == CHOOSE x \in S :
                     \A y \in S :
                        (CHOOSE i \in 1..Len(ord) : ord[i] = x)
                           <= (CHOOSE i \in 1..Len(ord) : ord[i] = y)
         IN  <<lo>> \o SortedBy(ord, S \ {lo})

\* sorted(S) for a set of str
sorted(S) == SortedBy(Lex, S)

\* set(list)
ToSet(s) == {s[i] : i \in 1..Len(s)}

\* The ids a link's zone and weight-tier sets are drawn from.
ZoneUniverse == {"Z1", "Z2"}
TierUniverse == {"W1", "W2"}

Perms(S) ==
    {p \in [1..Cardinality(S) -> S] : \A x \in S : \E i \in DOMAIN p : p[i] = x}

\* A hash seed fixes the order in which a set of str is iterated.
Seeds == {pz \o pw : pz \in Perms(ZoneUniverse), pw \in Perms(TierUniverse)}

\* for x in S, under hash seed sd
IterOrder(sd, S) == SortedBy(sd, S)

\* A finding: the message template and the values formatted into it.
F(kind, args) == [kind |-> kind, args |-> args]

NoResults ==
    [errors |-> << >>, warnings |-> << >>, fixes_needed |-> << >>, correct |-> << >>]

----------------------------------------------------------------------------
\* File names (scripts/data_files.py, loaded from mappings.json).

DATA_LINKS_FILE == "data_links.json"
PRODUCTS_FILE == "products.json"
ZONES_FILE == "zones.json"
WEIGHT_TIERS_FILE == "weight_tiers.json"
SERVICES_FILE == "services.json"
PRICES_FILE == "prices.json"
DIMENSIONS_FILE == "dimensions.json"

\* The attributes load_data assigns, in the order it loads them.
LoadOrder ==
    << "data_links", "products", "zones", "weight_tiers", "services", "prices",
       "dimensions" >>

FileOf(attr) ==
    CASE attr = "data_links" -> DATA_LINKS_FILE
      [] attr = "products" -> PRODUCTS_FILE
      [] attr = "zones" -> ZONES_FILE
      [] attr = "weight_tiers" -> WEIGHT_TIERS_FILE
      [] attr = "services" -> SERVICES_FILE
      [] attr = "prices" -> PRICES_FILE
      [] attr = "dimensions" -> DIMENSIONS_FILE

RequiredFiles == {FileOf(LoadOrder[i]) : i \in 1..Len(LoadOrder)}

\* Business constants (scripts/validators/links.py).
EXPECTED_LOOKUP_ARRAY == "prices.product_prices"
EXPECTED_WEIGHT_UNIT == "g"
EXPECTED_DIMENSION_UNIT == "mm"
EXPECTED_PRICE_UNIT == "cents"
EXPECTED_CURRENCY == "EUR"

----------------------------------------------------------------------------
\* The validator object.

\* DataLinksValidator.__init__: the attributes of a fresh instance.
NewValidator ==
    [ results |-> NoResults,
      data_links |-> PyNone, products |-> PyNone, zones |-> PyNone,
      weight_tiers |-> PyNone, services |-> PyNone, prices |-> PyNone,
      dimensions |-> PyNone,
      product_dict |-> << >>, zone_ids |-> << >>, weight_tier_ids |-> {},
      service_ids |-> << >>, services_by_id |-> << >>,
      product_prices |-> << >>, service_prices |-> << >>,
      all_data_files |-> {} ]

\* Path.exists() / Path.is_dir() of the data directory.
exists(d) == d.kind # "absent"
is_dir(d) == d.kind = "dir"

\* Variant of InitCheck: the two checks in the other order.
InitCheckDirFirst(d) ==
    IF d.kind # "dir" THEN "ValueError: not a directory"
    ELSE IF d.kind = "absent" THEN "FileNotFoundError: does not exist"
    ELSE None

\* The exception __init__ raises for directory d, or None.
InitCheck(d) ==
    IF ~exists(d) THEN "FileNotFoundError: does not exist"
    ELSE IF ~is_dir(d) THEN "ValueError: not a directory"
    ELSE None

\* load_json: the exception raised for the file, or None when it parses.
load_json(d, file) ==
    CASE d.status[file] = "missing" -> "FileNotFoundError"
      [] d.status[file] = "malformed" -> "JSONDecodeError"
      [] OTHER -> None

\* get_data_files(): the data file names mappings.json lists.
get_data_files(d) == d.mappings

\* {x["id"]: x for x in s}: the last entry with an id wins.
DictById(s) ==
    [k \in {s[i].id : i \in 1..Len(s)} |->
        s[CHOOSE i \in 1..Len(s) : s[i].id = k /\ \A j \in (i+1)..Len(s) : s[j].id # k]]

\* DataLinksValidator._build_lookup_structures
build_lookup_structures(v, d) ==
    IF IsNone(v.products) \/ IsNone(v.zones) THEN v
    ELSE [v EXCEPT
            !.product_dict = DictById(Get(v.products, "products", << >>)),
            !.zone_ids = DictById(Get(v.zones, "zones", << >>)),
            !.weight_tier_ids =
                IF Truthy(v.weight_tiers)
                THEN Get(v.weight_tiers, "weight_tiers", EmptyDict).keys ELSE {},
            !.service_ids =
                IF Truthy(v.services)
                THEN DictById(Get(v.services, "services", << >>)) ELSE << >>,
            !.services_by_id =
                IF Truthy(v.services)
                THEN DictById(Get(v.services, "services", << >>)) ELSE << >>,
            !.product_prices =
                IF Truthy(v.prices)
                THEN Get(Get(v.prices, "prices", EmptyDict), "product_prices", << >>)
                ELSE << >>,
            !.service_prices =
                IF Truthy(v.prices)
                THEN Get(Get(v.prices, "prices", EmptyDict), "service_prices", << >>)
                ELSE << >>,
            !.all_data_files = get_data_files(d)]

\* Index in LoadOrder of the first file load_json raises on, 0 when all parse.
FirstFailure(d) ==
    IF \A i \in 1..Len(LoadOrder) : load_json(d, FileOf(LoadOrder[i])) = None THEN 0
    ELSE CHOOSE i \in 1..Len(LoadOrder) :
            /\ load_json(d, FileOf(LoadOrder[i])) # None
            /\ \A j \in 1..(i-1) : load_json(d, FileOf(LoadOrder[j])) = None

\* v after the first n assignments of load_data's try block.
Assigned(v, d, n) ==
    [a \in DOMAIN v |->
        IF \E i \in 1..n : LoadOrder[i] = a THEN d.docs[a] ELSE v[a]]

\* The guard of load_data: the instance counts as already loaded.
AlreadyLoaded(v) == ~IsNone(v.data_links)

\* DataLinksValidator.load_data: the instance afterwards and the files it opened.
load_data(v, d) ==
    IF AlreadyLoaded(v) THEN [self |-> v, opened |-> << >>]
    ELSE LET bad == FirstFailure(d)
             n == IF bad = 0 THEN Len(LoadOrder) ELSE bad
             opened == [i \in 1..n |-> FileOf(LoadOrder[i])]
         IN  IF bad = 0
             THEN [self |-> build_lookup_structures(Assigned(v, d, n), d),
                   opened |-> opened]
             ELSE LET file == FileOf(LoadOrder[bad])
                      w == Assigned(v, d, bad - 1)
                      msg == IF load_json(d, file) = "FileNotFoundError"
                             THEN F("Missing file", << <<file>> >>)
                             ELSE F("Invalid JSON", << <<file>> >>)
                  IN  [self |-> [w EXCEPT !.results.errors = Append(@, msg)],
                       opened |-> opened]

----------------------------------------------------------------------------
\* The result collector as the rules thread it: the four finding lists of
\* self.results and the exception that ended the call, if any.

Collector(res) ==
    [errors |-> res.errors, warnings |-> res.warnings,
     fixes_needed |-> res.fixes_needed, correct |-> res.correct, raised |-> None]

ResultsOf(r) ==
    [errors |-> r.errors, warnings |-> r.warnings,
     fixes_needed |-> r.fixes_needed, correct |-> r.correct]

\* Variant of AddError: the finding is put in front of the list.
AddErrorInFront(r, f) == [r EXCEPT !.errors = <<f>> \o @]

\* self.results[<category>].append(f)
AddError(r, f) == [r EXCEPT !.errors = Append(@, f)]
AddWarning(r, f) == [r EXCEPT !.warnings = Append(@, f)]
AddFix(r, f) == [r EXCEPT !.fixes_needed = Append(@, f)]
AddCorrect(r, f) == [r EXCEPT !.correct = Append(@, f)]

Raise(r, e) == [r EXCEPT !.raised = e]

----------------------------------------------------------------------------
\* Rule 1: global settings.

\* DataLinksValidator._validate_file_reference
validate_file_reference(v, r, actual, expected, field_name) ==
    IF actual = expected
    THEN IF expected \in v.all_data_files
         THEN AddCorrect(r, F("matches actual file", << <<field_name>>, <<expected>> >>))
         ELSE AddError(r, F("references but file doesn't exist",
                            << <<field_name>>, <<expected>> >>))
    ELSE AddError(r, F("should be", << <<field_name>>, <<actual>>, <<expected>> >>))

\* Variant of _validate_lookup_array: the structure is looked at first.
validate_lookup_array_structure_first(v, r, lookup_array) ==
    IF ~(/\ Truthy(v.prices)
         /\ "prices" \in v.prices.keys
         /\ "product_prices" \in v.prices.prices.keys)
    THEN AddError(r, F("Lookup method references but structure doesn't match",
                       << <<EXPECTED_LOOKUP_ARRAY>> >>))
    ELSE IF lookup_array = EXPECTED_LOOKUP_ARRAY
    THEN AddCorrect(r, F("lookup_method.array matches actual structure",
                         << <<EXPECTED_LOOKUP_ARRAY>> >>))
    ELSE AddWarning(r, F("Lookup method array path - verify",
                         << <<lookup_array>>, <<EXPECTED_LOOKUP_ARRAY>> >>))

\* DataLinksValidator._validate_lookup_array
validate_lookup_array(v, r, lookup_array) ==
    IF lookup_array = EXPECTED_LOOKUP_ARRAY
    THEN IF /\ Truthy(v.prices)
            /\ "prices" \in v.prices.keys
            /\ "product_prices" \in v.prices.prices.keys
         THEN AddCorrect(r, F("lookup_method.array matches actual structure",
                              << <<EXPECTED_LOOKUP_ARRAY>> >>))
         ELSE AddError(r, F("Lookup method references but structure doesn't match",
                            << <<EXPECTED_LOOKUP_ARRAY>> >>))
    ELSE AddWarning(r, F("Lookup method array path - verify",
                         << <<lookup_array>>, <<EXPECTED_LOOKUP_ARRAY>> >>))

\* _validate_lookup_match_keys that takes the fields of every price entry.
validate_lookup_match_keys_any_entry(v, r, lookup_match) ==
    IF v.product_prices = << >>
    THEN AddWarning(r, F("No product prices found to validate lookup_method.match keys",
                         << >>))
    ELSE LET sample_price_keys ==
                 UNION {v.product_prices[i].keys : i \in 1..Len(v.product_prices)}
             match_keys_to_check == {k \in lookup_match.keys : k # "description"}
             missing_keys == match_keys_to_check \ sample_price_keys
         IN  IF missing_keys # {}
             THEN AddError(r, F("lookup_method.match keys do not exist in price entries",
                                << sorted(missing_keys), sorted(sample_price_keys) >>))
             ELSE AddCorrect(r, F("lookup_method.match keys exist in price entries",
                                  << sorted(match_keys_to_check) >>))

\* DataLinksValidator._validate_lookup_match_keys
validate_lookup_match_keys(v, r, lookup_match) ==
    IF v.product_prices = << >>
    THEN AddWarning(r, F("No product prices found to validate lookup_method.match keys",
                         << >>))
    ELSE LET sample_price_keys == v.product_prices[1].keys
             expected_match_keys == lookup_match.keys
             match_keys_to_check == {k \in expected_match_keys : k # "description"}
             missing_keys == match_keys_to_check \ sample_price_keys
         IN  IF missing_keys # {}
             THEN AddError(r, F("lookup_method.match keys do not exist in price entries",
                                << sorted(missing_keys), sorted(sample_price_keys) >>))
             ELSE AddCorrect(r, F("lookup_method.match keys exist in price entries",
                                  << sorted(match_keys_to_check) >>))

\* DataLinksValidator.validate_lookup_method
validate_lookup_method(v, r) ==
    IF IsNone(v.data_links) THEN r
    ELSE LET global_settings == Get(v.data_links, "global_settings", EmptyDict)
             lookup_method == Get(global_settings, "lookup_method", EmptyDict)
             price_source == Get(global_settings, "price_source", "")
             r1 == validate_file_reference(v, r, Get(lookup_method, "file", ""),
                                           PRICES_FILE, "lookup_method.file")
             r2 == validate_file_reference(v, r1, price_source, PRICES_FILE,
                                           "price_source")
             r3 == validate_lookup_array(v, r2, Get(lookup_method, "array", ""))
         IN  validate_lookup_match_keys(v, r3, Get(lookup_method, "match", EmptyDict))

----------------------------------------------------------------------------
\* Rule 2: per-product links.

\* Variant of ZoneExistenceLoop: unknown zones go unreported.
ZoneExistenceLoopSkipped(v, r, product_id, todo) == r

RECURSIVE ZoneExistenceLoop(_, _, _, _)
\* for zone in link_zones: if zone not in self.zone_ids: error
ZoneExistenceLoop(v, r, product_id, todo) ==
    IF todo = << >> THEN r
    ELSE LET zone == Head(todo)
             r1 == IF zone \notin DOMAIN v.zone_ids
                   THEN AddError(r, F("Zone does not exist", << <<zone>>, <<product_id>> >>))
                   ELSE r
         IN  ZoneExistenceLoop(v, r1, product_id, Tail(todo))

\* _validate_product_zones that accepts a link whose zones are a subset.
validate_product_zones_subset(v, sd, r, product_id, link_zones, product_zones) ==
    LET r1 == ZoneExistenceLoop(v, r, product_id, IterOrder(sd, link_zones))
    IN  IF link_zones \subseteq product_zones
        THEN AddCorrect(r1, F("zones match", << <<product_id>>, sorted(link_zones) >>))
        ELSE AddFix(r1, F("zones mismatch",
                          << <<product_id>>, sorted(link_zones), sorted(product_zones) >>))

\* DataLinksValidator._validate_product_zones
validate_product_zones(v, sd, r, product_id, link_zones, product_zones) ==
    LET r1 == ZoneExistenceLoop(v, r, product_id, IterOrder(sd, link_zones))
    IN  IF link_zones = product_zones
        THEN AddCorrect(r1, F("zones match", << <<product_id>>, sorted(link_zones) >>))
        ELSE AddFix(r1, F("zones mismatch",
                          << <<product_id>>, sorted(link_zones), sorted(product_zones) >>))

RECURSIVE TierExistenceLoop(_, _, _, _)
\* for wt in link_weight_tiers: if wt not in self.weight_tier_ids: error
TierExistenceLoop(v, r, product_id, todo) ==
    IF todo = << >> THEN r
    ELSE LET wt == Head(todo)
             r1 == IF wt \notin v.weight_tier_ids
                   THEN AddError(r, F("Weight tier does not exist",
                                      << <<wt>>, <<product_id>> >>))
                   ELSE r
         IN  TierExistenceLoop(v, r1, product_id, Tail(todo))

\* The product-price entries whatever their product.
PricesOfAny(v, product_id) == 1..Len(v.product_prices)

\* The product-price entries of a product: p.get("product_id") == product_id.
PricesOf(v, product_id) ==
    {i \in 1..Len(v.product_prices) :
        Get(v.product_prices[i], "product_id", None) = product_id}

\* Variant of _validate_product_weight_tiers: priced tiers that are all
\* declared count as a match.
validate_product_weight_tiers_subset(v, sd, r, product_id, link_weight_tiers, product_weight_tier) ==
    LET r1 == TierExistenceLoop(v, r, product_id, IterOrder(sd, link_weight_tiers))
        mine == PricesOf(v, product_id)
    IN  IF \E i \in mine : "weight_tier" \notin v.product_prices[i].keys
        THEN Raise(r1, "KeyError")
        ELSE LET price_weight_tiers == {v.product_prices[i].weight_tier : i \in mine}
                 truthy == product_weight_tier # None /\ product_weight_tier # ""
                 r2 == IF truthy /\ product_weight_tier \in link_weight_tiers
                       THEN AddCorrect(r1, F("weight_tier is in links",
                                             << <<product_id>>, <<product_weight_tier>> >>))
                       ELSE IF truthy
                       THEN AddFix(r1, F("weight_tier from product not in links",
                                         << <<product_id>>, <<product_weight_tier>>,
                                            sorted(link_weight_tiers) >>))
                       ELSE r1
             IN  IF price_weight_tiers \subseteq link_weight_tiers
                 THEN AddCorrect(r2, F("all price weight_tiers match links",
                                       << <<product_id>>, sorted(price_weight_tiers) >>))
                 ELSE AddFix(r2, F("prices exist for weight_tiers but not in links",
                                   << <<product_id>>,
                                      sorted(price_weight_tiers \ link_weight_tiers) >>))

\* DataLinksValidator._validate_product_weight_tiers
validate_product_weight_tiers(v, sd, r, product_id, link_weight_tiers, product_weight_tier) ==
    LET r1 == TierExistenceLoop(v, r, product_id, IterOrder(sd, link_weight_tiers))
        mine == PricesOf(v, product_id)
    IN  IF \E i \in mine : "weight_tier" \notin v.product_prices[i].keys
        THEN Raise(r1, "KeyError")      \* p["weight_tier"]
        ELSE LET price_weight_tiers == {v.product_prices[i].weight_tier : i \in mine}
                 truthy == product_weight_tier # None /\ product_weight_tier # ""
                 r2 == IF truthy /\ product_weight_tier \in link_weight_tiers
                       THEN AddCorrect(r1, F("weight_tier is in links",
                                             << <<product_id>>, <<product_weight_tier>> >>))
                       ELSE IF truthy
                       THEN AddFix(r1, F("weight_tier from product not in links",
                                         << <<product_id>>, <<product_weight_tier>>,
                                            sorted(link_weight_tiers) >>))
                       ELSE r1
                 missing_tiers == price_weight_tiers \ link_weight_tiers
             IN  IF missing_tiers # {}
                 THEN AddFix(r2, F("prices exist for weight_tiers but not in links",
                                   << <<product_id>>, sorted(missing_tiers) >>))
                 ELSE IF price_weight_tiers = link_weight_tiers
                 THEN AddCorrect(r2, F("all price weight_tiers match links",
                                       << <<product_id>>, sorted(price_weight_tiers) >>))
                 ELSE r2

\* Variant of matching_price: a price of the product and tier in any zone.
matching_price_any_zone(v, product_id, zone, weight_tier) ==
    \E i \in 1..Len(v.product_prices) :
        /\ Get(v.product_prices[i], "product_id", None) = product_id
        /\ Get(v.product_prices[i], "weight_tier", None) = weight_tier

\* any(p matches (product_id, zone, weight_tier) for p in self.product_prices)
matching_price(v, product_id, zone, weight_tier) ==
    \E i \in 1..Len(v.product_prices) :
        /\ Get(v.product_prices[i], "product_id", None) = product_id
        /\ Get(v.product_prices[i], "zone", None) = zone
        /\ Get(v.product_prices[i], "weight_tier", None) = weight_tier

RECURSIVE CoverageLoop(_, _, _, _)
\* The nested loops of _validate_price_coverage over the (zone, tier) pairs
\* in iteration order.
CoverageLoop(v, r, product_id, todo) ==
    IF todo = << >> THEN r
    ELSE LET pair == Head(todo)
             r1 == IF ~matching_price(v, product_id, pair[1], pair[2])
                   THEN AddWarning(r, F("No price found",
                                        << <<product_id>>, <<pair[1]>>, <<pair[2]>> >>))
                   ELSE r
         IN  CoverageLoop(v, r1, product_id, Tail(todo))

\* for zone in zs: for weight_tier in ws: the pairs visited, in order
Pairs(zs, ws) ==
    [k \in 1..(Len(zs) * Len(ws)) |->
        << zs[((k - 1) \div Len(ws)) + 1], ws[((k - 1) % Len(ws)) + 1] >>]

\* DataLinksValidator._validate_price_coverage
validate_price_coverage(v, sd, r, product_id, link_zones, link_weight_tiers) ==
    CoverageLoop(v, r, product_id,
                 Pairs(IterOrder(sd, link_zones), IterOrder(sd, link_weight_tiers)))

\* _validate_product_link without the return after the unknown-product error.
validate_product_link_cascading(v, sd, r, product_id, link_data) ==
    LET link_zones == ToSet(Get(link_data, "zones", << >>))
        link_weight_tiers == ToSet(Get(link_data, "weight_tiers", << >>))
        known == product_id \in DOMAIN v.product_dict
        r0 == IF known THEN r
              ELSE AddError(r, F("Product in links does not exist", << <<product_id>> >>))
        product_zones ==
            IF known THEN ToSet(Get(v.product_dict[product_id], "supported_zones", << >>))
            ELSE {}
        product_weight_tier ==
            IF known THEN Get(v.product_dict[product_id], "weight_tier", None) ELSE None
        r1 == validate_product_zones(v, sd, r0, product_id, link_zones, product_zones)
        r2 == validate_product_weight_tiers(v, sd, r1, product_id, link_weight_tiers,
                                            product_weight_tier)
    IN  IF r2.raised # None THEN r2
        ELSE validate_price_coverage(v, sd, r2, product_id, link_zones, link_weight_tiers)

\* DataLinksValidator._validate_product_link
validate_product_link(v, sd, r, product_id, link_data) ==
    IF product_id \notin DOMAIN v.product_dict
    THEN AddError(r, F("Product in links does not exist", << <<product_id>> >>))
    ELSE LET product == v.product_dict[product_id]
             link_zones == ToSet(Get(link_data, "zones", << >>))
             link_weight_tiers == ToSet(Get(link_data, "weight_tiers", << >>))
             product_zones == ToSet(Get(product, "supported_zones", << >>))
             product_weight_tier == Get(product, "weight_tier", None)
             r1 == validate_product_zones(v, sd, r, product_id, link_zones, product_zones)
             r2 == validate_product_weight_tiers(v, sd, r1, product_id, link_weight_tiers,
                                                 product_weight_tier)
         IN  IF r2.raised # None THEN r2
             ELSE validate_price_coverage(v, sd, r2, product_id, link_zones,
                                          link_weight_tiers)

RECURSIVE LinksLoop(_, _, _, _)
\* for product_id, link_data in links.items()
LinksLoop(v, sd, r, todo) ==
    IF todo = << >> \/ r.raised # None THEN r
    ELSE LinksLoop(v, sd,
                   validate_product_link(v, sd, r, Head(todo).key, Head(todo).value),
                   Tail(todo))

\* DataLinksValidator.validate_links
validate_links(v, sd, r) ==
    IF IsNone(v.data_links) THEN r
    ELSE LinksLoop(v, sd, r, Get(v.data_links, "links", << >>))

----------------------------------------------------------------------------
\* Rules 3 and 4: completeness and aggregate validity.

\* set(links.keys())
LinkKeys(links) == {links[i].key : i \in 1..Len(links)}

\* validate_products_in_links with one fixes_needed entry per missing product.
validate_products_in_links_per_product(v, r) ==
    IF IsNone(v.data_links) THEN r
    ELSE LET links == Get(v.data_links, "links", << >>)
             missing_products == sorted((DOMAIN v.product_dict) \ LinkKeys(links))
         IN  IF missing_products # << >>
             THEN [r EXCEPT !.fixes_needed = @ \o
                     [i \in 1..Len(missing_products) |->
                        F("Products in products.json but not in links",
                          << <<missing_products[i]>> >>)]]
             ELSE AddCorrect(r, F("All products are in links", << >>))

\* DataLinksValidator.validate_products_in_links
validate_products_in_links(v, r) ==
    IF IsNone(v.data_links) THEN r
    ELSE LET links == Get(v.data_links, "links", << >>)
             products_in_data == DOMAIN v.product_dict
             products_in_links == LinkKeys(links)
             missing_products == products_in_data \ products_in_links
         IN  IF missing_products # {}
             THEN AddFix(r, F("Products in products.json but not in links",
                              << sorted(missing_products) >>))
             ELSE AddCorrect(r, F("All products are in links", << >>))

\* Variant of validate_zones_and_weight_tiers: the two confirmations are
\* given together or not at all.
validate_zones_and_weight_tiers_joint(v, r) ==
    IF IsNone(v.data_links) THEN r
    ELSE LET links == Get(v.data_links, "links", << >>)
             all_link_zones ==
                 UNION {ToSet(Get(links[i].value, "zones", << >>)) : i \in 1..Len(links)}
             all_link_weight_tiers ==
                 UNION {ToSet(Get(links[i].value, "weight_tiers", << >>)) :
                           i \in 1..Len(links)}
         IN  IF /\ all_link_zones \subseteq DOMAIN v.zone_ids
                /\ all_link_weight_tiers \subseteq v.weight_tier_ids
             THEN AddCorrect(AddCorrect(r, F("All zones in links are valid", << >>)),
                             F("All weight_tiers in links are valid", << >>))
             ELSE r

\* DataLinksValidator.validate_zones_and_weight_tiers
validate_zones_and_weight_tiers(v, r) ==
    IF IsNone(v.data_links) THEN r
    ELSE LET links == Get(v.data_links, "links", << >>)
             all_link_zones ==
                 UNION {ToSet(Get(links[i].value, "zones", << >>)) : i \in 1..Len(links)}
             all_link_weight_tiers ==
                 UNION {ToSet(Get(links[i].value, "weight_tiers", << >>)) :
                           i \in 1..Len(links)}
             invalid_zones == all_link_zones \ DOMAIN v.zone_ids
             invalid_weight_tiers == all_link_weight_tiers \ v.weight_tier_ids
             r1 == IF invalid_zones = {}
                   THEN AddCorrect(r, F("All zones in links are valid", << >>))
                   ELSE r
         IN  IF invalid_weight_tiers = {}
             THEN AddCorrect(r1, F("All weight_tiers in links are valid", << >>))
             ELSE r1

----------------------------------------------------------------------------
\* Rule 5: services.

RECURSIVE ServiceExistenceLoop(_, _, _)
\* for service_id in available_services: if service_id not in self.service_ids
ServiceExistenceLoop(v, r, todo) ==
    IF todo = << >> THEN r
    ELSE LET r1 == IF Head(todo) \notin DOMAIN v.service_ids
                   THEN AddError(r, F("Service in available_services does not exist",
                                      << <<Head(todo)>> >>))
                   ELSE r
         IN  ServiceExistenceLoop(v, r1, Tail(todo))

RECURSIVE ServiceHasPriceLoop(_, _, _)
\* for service_id in available_services: if service_id not in service_price_ids
ServiceHasPriceLoop(ids, r, todo) ==
    IF todo = << >> THEN r
    ELSE LET r1 == IF Head(todo) \notin ids
                   THEN AddWarning(r, F("Service is listed as available but has no price",
                                        << <<Head(todo)>> >>))
                   ELSE r
         IN  ServiceHasPriceLoop(ids, r1, Tail(todo))

RECURSIVE LastEffectiveTo(_)
\* The search of a price history that lets the last non-null effective_to win.
LastEffectiveTo(price_entries) ==
    IF price_entries = << >> THEN None
    ELSE LET effective_to == Get(price_entries[Len(price_entries)], "effective_to", None)
         IN  IF effective_to # None THEN effective_to
             ELSE LastEffectiveTo(SubSeq(price_entries, 1, Len(price_entries) - 1))

RECURSIVE FirstEffectiveTo(_)
\* The loop over a price history: the first effective_to that is not None.
FirstEffectiveTo(price_entries) ==
    IF price_entries = << >> THEN None
    ELSE LET effective_to == Get(Head(price_entries), "effective_to", None)
         IN  IF effective_to # None THEN effective_to
             ELSE FirstEffectiveTo(Tail(price_entries))

\* The loop body that accepts a service without effective_to.
CheckServicePriceLenient(v, r, price_entry) ==
    LET service_id == Get(price_entry, "service_id", None)
    IN  IF service_id = None \/ service_id = "" THEN r
        ELSE LET price_effective_to == FirstEffectiveTo(Get(price_entry, "price", << >>))
             IN  IF price_effective_to = None THEN r
                 ELSE IF service_id \notin DOMAIN v.services_by_id
                 THEN AddError(r, F("Service has prices but service not found",
                                    << <<service_id>> >>))
                 ELSE LET service_effective_to ==
                              Get(v.services_by_id[service_id], "effective_to", None)
                      IN  IF /\ service_effective_to # None
                             /\ service_effective_to # price_effective_to
                          THEN AddError(r, F("Dates must match",
                                             << <<service_id>>, <<price_effective_to>>,
                                                <<service_effective_to>> >>))
                          ELSE r

\* The body of _validate_service_price_consistency's loop, for one entry.
CheckServicePrice(v, r, price_entry) ==
    LET service_id == Get(price_entry, "service_id", None)
    IN  IF service_id = None \/ service_id = "" THEN r
        ELSE LET price_effective_to == FirstEffectiveTo(Get(price_entry, "price", << >>))
             IN  IF price_effective_to = None THEN r
                 ELSE IF service_id \notin DOMAIN v.services_by_id
                 THEN AddError(r, F("Service has prices but service not found",
                                    << <<service_id>> >>))
                 ELSE LET service == v.services_by_id[service_id]
                          service_effective_to == Get(service, "effective_to", None)
                      IN  IF service_effective_to = None
                          THEN AddError(r, F("Service must be marked as discontinued",
                                             << <<service_id>>, <<price_effective_to>> >>))
                          ELSE IF service_effective_to # price_effective_to
                          THEN AddError(r, F("Dates must match",
                                             << <<service_id>>, <<price_effective_to>>,
                                                <<service_effective_to>> >>))
                          ELSE r

RECURSIVE ServicePriceLoop(_, _, _)
\* for price_entry in self.service_prices
ServicePriceLoop(v, r, todo) ==
    IF todo = << >> THEN r
    ELSE ServicePriceLoop(v, CheckServicePrice(v, r, Head(todo)), Tail(todo))

\* DataLinksValidator._validate_service_price_consistency
validate_service_price_consistency(v, r) == ServicePriceLoop(v, r, v.service_prices)

\* DataLinksValidator.validate_available_services
validate_available_services(v, r) ==
    IF IsNone(v.data_links) THEN r
    ELSE LET available_services ==
                 Get(Get(v.data_links, "global_settings", EmptyDict),
                     "available_services", << >>)
             r1 == ServiceExistenceLoop(v, r, available_services)
             service_price_ids ==
                 {Get(v.service_prices[i], "service_id", None) :
                     i \in 1..Len(v.service_prices)}
             r2 == ServiceHasPriceLoop(service_price_ids, r1, available_services)
         IN  validate_service_price_consistency(v, r2)

----------------------------------------------------------------------------
\* Rule 6: dependencies.

RECURSIVE DependsOnLoop(_, _, _, _)
\* for dep_file_name in depends_on
DependsOnLoop(v, r, dep_name, todo) ==
    IF todo = << >> THEN r
    ELSE LET r1 == IF Head(todo) \notin v.all_data_files
                   THEN AddWarning(r, F("Dependency is not a known data file",
                                        << <<Head(todo)>>, <<dep_name>> >>))
                   ELSE r
         IN  DependsOnLoop(v, r1, dep_name, Tail(todo))

RECURSIVE DependencyLoop(_, _, _)
\* for dep_name, dep_data in dependencies.items()
DependencyLoop(v, r, todo) ==
    IF todo = << >> THEN r
    ELSE LET dep_name == Head(todo).key
             dep_data == Head(todo).value
             dep_file == Get(dep_data, "file", None)
             r1 == IF dep_file \notin v.all_data_files
                   THEN AddWarning(r, F("Dependency file is not a known data file",
                                        << <<dep_file>> >>))
                   ELSE r
             r2 == DependsOnLoop(v, r1, dep_name, Get(dep_data, "depends_on", << >>))
         IN  DependencyLoop(v, r2, Tail(todo))

\* Variant of validate_dependencies: the data-links file is expected among
\* the described files like any other.
validate_dependencies_all_files(v, r) ==
    IF IsNone(v.data_links) THEN r
    ELSE LET dependencies == Get(v.data_links, "dependencies", << >>)
             files_in_dependencies ==
                 {Get(dependencies[i].value, "file", None) : i \in 1..Len(dependencies)}
             missing_in_dependencies == v.all_data_files \ files_in_dependencies
             r1 == IF missing_in_dependencies # {}
                   THEN AddFix(r, F("Data files not in dependencies section",
                                    << sorted(missing_in_dependencies) >>))
                   ELSE AddCorrect(r, F("All data files are covered in dependencies section",
                                        << >>))
         IN  DependencyLoop(v, r1, dependencies)

\* DataLinksValidator.validate_dependencies
validate_dependencies(v, r) ==
    IF IsNone(v.data_links) THEN r
    ELSE LET dependencies == Get(v.data_links, "dependencies", << >>)
             expected_data_files == v.all_data_files \ {DATA_LINKS_FILE}
             files_in_dependencies ==
                 {Get(dependencies[i].value, "file", None) : i \in 1..Len(dependencies)}
             missing_in_dependencies == expected_data_files \ files_in_dependencies
             r1 == IF missing_in_dependencies # {}
                   THEN AddFix(r, F("Data files not in dependencies section",
                                    << sorted(missing_in_dependencies) >>))
                   ELSE AddCorrect(r, F("All data files are covered in dependencies section",
                                        << >>))
         IN  DependencyLoop(v, r1, dependencies)

----------------------------------------------------------------------------
\* Rule 7: units.

\* validate_unit_consistency that looks at the data_links value first.
validate_unit_consistency_first_decides(unit_name, data_links_value, expected_value, file_names, r, other_values) ==
    LET all_values == <<data_links_value>> \o other_values
    IN  IF data_links_value # expected_value
        THEN AddWarning(r, F("Unit is consistent but verify it's correct",
                             << <<unit_name>>, <<data_links_value>>,
                                <<expected_value>>, file_names >>))
        ELSE IF Cardinality(ToSet(all_values)) = 1
        THEN AddCorrect(r, F("Unit is consistent across all files",
                             << <<unit_name>>, <<expected_value>> >>))
        ELSE AddError(r, F("unit mismatch",
                           << <<unit_name>>, file_names, all_values, <<expected_value>> >>))

\* Variant of validate_unit_consistency: a shared value that is not the
\* expected one is an error.
validate_unit_consistency_strict(unit_name, data_links_value, expected_value, file_names, r, other_values) ==
    LET all_values == <<data_links_value>> \o other_values
    IN  IF Cardinality(ToSet(all_values)) = 1 /\ data_links_value = expected_value
        THEN AddCorrect(r, F("Unit is consistent across all files",
                             << <<unit_name>>, <<expected_value>> >>))
        ELSE AddError(r, F("unit mismatch",
                           << <<unit_name>>, file_names, all_values, <<expected_value>> >>))

\* validate_unit_consistency (scripts/validators/helpers.py)
validate_unit_consistency(unit_name, data_links_value, expected_value, file_names, r, other_values) ==
    LET all_values == <<data_links_value>> \o other_values
    IN  IF Cardinality(ToSet(all_values)) = 1
        THEN IF data_links_value = expected_value
             THEN AddCorrect(r, F("Unit is consistent across all files",
                                  << <<unit_name>>, <<expected_value>> >>))
             ELSE AddWarning(r, F("Unit is consistent but verify it's correct",
                                  << <<unit_name>>, <<data_links_value>>,
                                     <<expected_value>>, file_names >>))
        ELSE AddError(r, F("unit mismatch",
                           << <<unit_name>>, file_names, all_values, <<expected_value>> >>))

\* doc.get("unit", {}).get(name)
UnitOf(doc, name) == Get(Get(doc, "unit", EmptyDict), name, None)

\* DataLinksValidator.validate_weight_units
validate_weight_units(v, r) ==
    IF ~(Truthy(v.data_links) /\ Truthy(v.products) /\ Truthy(v.weight_tiers)) THEN r
    ELSE validate_unit_consistency(
             "weight", UnitOf(v.data_links, "weight"), EXPECTED_WEIGHT_UNIT,
             <<DATA_LINKS_FILE, PRODUCTS_FILE, WEIGHT_TIERS_FILE>>, r,
             <<UnitOf(v.products, "weight"), UnitOf(v.weight_tiers, "weight")>>)

\* DataLinksValidator.validate_dimension_units
validate_dimension_units(v, r) ==
    IF ~(Truthy(v.data_links) /\ Truthy(v.products) /\ Truthy(v.dimensions)) THEN r
    ELSE validate_unit_consistency(
             "dimension", UnitOf(v.data_links, "dimension"), EXPECTED_DIMENSION_UNIT,
             <<DATA_LINKS_FILE, PRODUCTS_FILE, DIMENSIONS_FILE>>, r,
             <<UnitOf(v.products, "dimension"), UnitOf(v.dimensions, "dimension")>>)

\* DataLinksValidator.validate_price_units
validate_price_units(v, r) ==
    IF ~(Truthy(v.data_links) /\ Truthy(v.prices)) THEN r
    ELSE validate_unit_consistency(
             "price", UnitOf(v.data_links, "price"), EXPECTED_PRICE_UNIT,
             <<DATA_LINKS_FILE, PRICES_FILE>>, r, <<UnitOf(v.prices, "price")>>)

\* DataLinksValidator.validate_currency_units
validate_currency_units(v, r) ==
    IF ~(Truthy(v.data_links) /\ Truthy(v.prices)) THEN r
    ELSE validate_unit_consistency(
             "currency", UnitOf(v.data_links, "currency"), EXPECTED_CURRENCY,
             <<DATA_LINKS_FILE, PRICES_FILE>>, r, <<UnitOf(v.prices, "currency")>>)

\* DataLinksValidator.validate_units
validate_units(v, r) ==
    validate_currency_units(v,
        validate_price_units(v,
            validate_dimension_units(v,
                validate_weight_units(v, r))))

----------------------------------------------------------------------------
\* Rule 8: circular dependencies.

\* name.replace(".json", "")
StripJson(name) ==
    CASE name = "data_links.json" -> "data_links"
      [] name = "dimensions.json" -> "dimensions"
      [] name = "features.json" -> "features"
      [] name = "other.json" -> "other"
      [] name = "prices.json" -> "prices"
      [] name = "products.json" -> "products"
      [] name = "restrictions.json" -> "restrictions"
      [] name = "services.json" -> "services"
      [] name = "weight_tiers.json" -> "weight_tiers"
      [] name = "zones.json" -> "zones"
      [] OTHER -> name

\* dep_graph.get(node, set()): the depends_on of the last entry written for node.
DepGraphGet(dependencies, node) ==
    LET hits == {i \in 1..Len(dependencies) :
                    StripJson(Get(dependencies[i].value, "file", "")) = node}
    IN  IF hits = {} THEN {}
        ELSE LET last == CHOOSE i \in hits : \A j \in hits : j <= i
             IN  {StripJson(x) : x \in ToSet(Get(dependencies[last].value, "depends_on", << >>))}

\* DataLinksValidator.validate_circular_dependencies
validate_circular_dependencies(v, r) ==
    IF IsNone(v.data_links) THEN r
    ELSE LET dependencies == Get(v.data_links, "dependencies", << >>)
         IN  IF /\ "products" \in DepGraphGet(dependencies, "prices")
                /\ "prices" \in DepGraphGet(dependencies, "products")
             THEN AddWarning(r, F("Circular dependency detected", << >>))
             ELSE r

----------------------------------------------------------------------------
\* The orchestrator.

\* The rules validate_all calls, in its order.
Rules ==
    << "validate_lookup_method", "validate_links", "validate_products_in_links",
       "validate_zones_and_weight_tiers", "validate_available_services",
       "validate_dependencies", "validate_units", "validate_circular_dependencies" >>

RunRule(name, v, sd, r) ==
    CASE name = "validate_lookup_method" -> validate_lookup_method(v, r)
      [] name = "validate_links" -> validate_links(v, sd, r)
      [] name = "validate_products_in_links" -> validate_products_in_links(v, r)
      [] name = "validate_zones_and_weight_tiers" -> validate_zones_and_weight_tiers(v, r)
      [] name = "validate_available_services" -> validate_available_services(v, r)
      [] name = "validate_dependencies" -> validate_dependencies(v, r)
      [] name = "validate_units" -> validate_units(v, r)
      [] name = "validate_circular_dependencies" -> validate_circular_dependencies(v, r)

RECURSIVE RunRules(_, _, _, _)
\* The rule calls of validate_all from the i-th on; a raised exception ends them.
RunRules(v, sd, st, i) ==
    IF i > Len(Rules) \/ st.r.raised # None THEN st
    ELSE RunRules(v, sd,
                  [r |-> RunRule(Rules[i], v, sd, st.r), ran |-> Append(st.ran, Rules[i])],
                  i + 1)

\* Variant of LoadFailed: validate_all without its early return.
LoadFailedIgnored(v) == FALSE

\* The early return of validate_all: loading recorded an error.
LoadFailed(v) == v.results.errors # << >>

\* DataLinksValidator.validate_all: the instance afterwards, the files opened,
\* the rules started and the exception raised (None when it returned).
validate_all(v, d, sd) ==
    LET ld == load_data(v, d)
    IN  IF LoadFailed(ld.self)
        THEN [self |-> ld.self, opened |-> ld.opened, ran |-> << >>, raised |-> None]
        ELSE LET st == RunRules(ld.self, sd,
                                [r |-> Collector(ld.self.results), ran |-> << >>], 1)
             IN  [self |-> [ld.self EXCEPT !.results = ResultsOf(st.r)],
                  opened |-> ld.opened, ran |-> st.ran, raised |-> st.r.raised]

----------------------------------------------------------------------------
\* The reporters.

\* _print_validate_mode (scripts/validators/links.py): the exit code and the
\* closing line printed.
links_print_validate_mode(results) ==
    LET has_errors == Len(results.errors) > 0
    IN  IF ~has_errors
        THEN [code |-> 0, line |-> "All validations passed"]
        ELSE [code |-> 1, line |-> "Validation failed"]

\* Variant of cli_print_validate_mode: any issue fails the run.
cli_print_validate_mode_strict(results) ==
    IF Len(results.errors) + Len(results.fixes_needed) + Len(results.warnings) > 0
    THEN [code |-> 1, line |-> "Validation failed"]
    ELSE [code |-> 0, line |-> "All validations passed"]

\* print_validate_mode (cli/commands/validate.py)
cli_print_validate_mode(results) ==
    LET has_errors == Len(results.errors) > 0
        has_issues ==
            Len(results.errors) + Len(results.fixes_needed) + Len(results.warnings) > 0
    IN  IF ~has_errors /\ ~has_issues
        THEN [code |-> 0, line |-> "All validations passed"]
        ELSE IF ~has_errors
        THEN [code |-> 0, line |-> "No critical errors found"]
        ELSE [code |-> 1, line |-> "Validation failed"]

\* Variant of AnalyzeSummary: any issue fails the run.
AnalyzeSummaryStrict(results) ==
    IF Len(results.errors) + Len(results.fixes_needed) + Len(results.warnings) = 0
    THEN [code |-> 0, line |-> "All checks passed"]
    ELSE [code |-> 1, line |-> "Summary"]

\* The summary and return of both analyze-mode reporters.
AnalyzeSummary(results) ==
    LET total_issues ==
            Len(results.errors) + Len(results.fixes_needed) + Len(results.warnings)
    IN  IF total_issues = 0
        THEN [code |-> 0, line |-> "All checks passed"]
        ELSE [code |-> IF results.errors # << >> THEN 1 ELSE 0, line |-> "Summary"]

\* _print_analyze_mode (scripts/validators/links.py)
links_print_analyze_mode(results) == AnalyzeSummary(results)

\* print_analyze_mode (cli/commands/validate.py)
cli_print_analyze_mode(results) == AnalyzeSummary(results)

----------------------------------------------------------------------------
\* Documents.

\* A unit block holding the given values; a value of None is a key left out.
UnitBlock(w, d, p, c) ==
    [keys |-> {k \in {"weight", "dimension", "price", "currency"} :
                  (CASE k = "weight" -> w [] k = "dimension" -> d
                     [] k = "price" -> p [] k = "currency" -> c) # None},
     weight |-> w, dimension |-> d, price |-> p, currency |-> c]

NoUnit == UnitBlock(None, None, None, None)

\* The keys of a document: file_type, the given ones, and "unit" when it has one.
DocKeys(ks, unit) == {"file_type"} \cup ks \cup (IF unit.keys # {} THEN {"unit"} ELSE {})

Product(id, zs, wt) ==
    [keys |-> {"id", "supported_zones"} \cup (IF wt # None THEN {"weight_tier"} ELSE {}),
     id |-> id, supported_zones |-> zs, weight_tier |-> wt]

ProductPrice(pid, z, w) ==
    [keys |-> {"product_id", "zone", "weight_tier", "price"},
     product_id |-> pid, zone |-> z, weight_tier |-> w]

Link(zs, ws) == [keys |-> {"zones", "weight_tiers"}, zones |-> zs, weight_tiers |-> ws]

\* One key of an ordered dict with its value.
Item(k, val) == [key |-> k, value |-> val]

\* A service record; eff_keyed says whether it has the key effective_to.
Service(id, eff_keyed, eff) ==
    [keys |-> {"id", "name"} \cup (IF eff_keyed THEN {"effective_to"} ELSE {}),
     id |-> id, effective_to |-> eff]

\* One item of a price history; "absent" leaves the key effective_to out.
PriceItem(eff) ==
    [keys |-> {"price", "effective_from"}
                 \cup (IF eff # "absent" THEN {"effective_to"} ELSE {}),
     effective_to |-> IF eff = "absent" THEN None ELSE eff]

\* A service-price entry; a service_id of "absent" leaves the key out.
ServicePrice(sid, history) ==
    [keys |-> {"price"} \cup (IF sid # "absent" THEN {"service_id"} ELSE {}),
     service_id |-> IF sid = "absent" THEN None ELSE sid,
     price |-> history]

Dependency(file, depends_on) ==
    [keys |-> {"file", "depends_on"}, file |-> file, depends_on |-> depends_on]

GlobalSettings(price_source, file, array, match_keys, available_services) ==
    [keys |-> {"price_source", "lookup_method", "available_services"},
     price_source |-> price_source,
     lookup_method |->
        [keys |-> {"file", "array", "match"}, file |-> file, array |-> array,
         match |-> [keys |-> match_keys]],
     available_services |-> available_services]

DataLinksDoc(unit, dependencies, links, global_settings) ==
    [tag |-> "dict",
     keys |-> DocKeys({"schema_version", "dependencies", "links", "global_settings"}, unit),
     unit |-> unit, dependencies |-> dependencies, links |-> links,
     global_settings |-> global_settings]

ProductsDoc(products, unit) ==
    [tag |-> "dict", keys |-> DocKeys({"products"}, unit), unit |-> unit,
     products |-> products]

ZonesDoc(ids) ==
    [tag |-> "dict", keys |-> {"file_type", "zones"},
     zones |-> [i \in 1..Cardinality(ids) |-> [keys |-> {"id"}, id |-> sorted(ids)[i]]]]

WeightTiersDoc(ids, unit) ==
    [tag |-> "dict", keys |-> DocKeys({"weight_tiers"}, unit), unit |-> unit,
     weight_tiers |-> [keys |-> ids]]

ServicesDoc(services) ==
    [tag |-> "dict", keys |-> {"file_type", "services"}, services |-> services]

PricesDoc(product_prices, service_prices, unit) ==
    [tag |-> "dict", keys |-> DocKeys({"prices"}, unit), unit |-> unit,
     prices |-> [keys |-> {"product_prices", "service_prices"},
                 product_prices |-> product_prices, service_prices |-> service_prices]]

DimensionsDoc(unit) ==
    [tag |-> "dict", keys |-> DocKeys({"dimensions"}, unit), unit |-> unit]

\* A top-level JSON null: json.load returns None.
NullDoc == PyNone

\* global_settings of the minimal_data_links fixture (tests/conftest.py).
MinimalSettings ==
    GlobalSettings(PRICES_FILE, PRICES_FILE, EXPECTED_LOOKUP_ARRAY, {}, << >>)

FullUnit == UnitBlock("g", "mm", "cents", "EUR")

\* The documents of the minimal_data_files fixture (tests/conftest.py).
MinimalDocs ==
    [ data_links |-> DataLinksDoc(FullUnit, << >>, << >>, MinimalSettings),
      products |-> ProductsDoc(<< >>, NoUnit),
      zones |-> ZonesDoc({}),
      weight_tiers |-> WeightTiersDoc({}, NoUnit),
      services |-> ServicesDoc(<< >>),
      prices |-> PricesDoc(<< >>, << >>, UnitBlock(None, None, "cents", "EUR")),
      dimensions |-> DimensionsDoc(NoUnit) ]

\* The data file names of the repository's mappings.json.
AllDataFiles == RequiredFiles \cup {"features.json", "restrictions.json"}

AllOk == [f \in RequiredFiles |-> "ok"]

Directory(kind, status, docs, mappings) ==
    [kind |-> kind, status |-> status, docs |-> docs, mappings |-> mappings]

----------------------------------------------------------------------------
\* The command line (cli/commands/metadata.py, cli/commands/validate.py).
\* A repository is what the commands probe: the outcome of validate_file for
\* each schema/data mapping, whether the checksums differ from metadata.json,
\* what git reports as staged and modified, what the generator does when it
\* is called, and the data directory.  Each command returns its exit code,
\* the calls it made in order, and the repository it leaves behind.

MaxMappings == 2

check_data_files_staged(repo) == repo.data_staged

check_metadata_status(repo) == [modified |-> repo.modified, staged |-> repo.staged]

has_file_changes(repo) == repo.changes

\* generate_metadata.main: raises, keeps the file, or writes metadata.json
\* (the working tree then differs from the index and the checksums agree).
generate_metadata_main(repo) ==
    CASE repo.generation = "raises" -> [raised |-> TRUE, repo |-> repo]
      [] repo.generation = "keeps" -> [raised |-> FALSE, repo |-> repo]
      [] OTHER -> [raised |-> FALSE,
                   repo |-> [repo EXCEPT !.modified = TRUE, !.changes = FALSE]]

MetadataOutcome(code, line, called, repo) ==
    [code |-> code, line |-> line, called |-> called, repo |-> repo]

\* Variant of handle_metadata_generation: the staging check is made only
\* after a generation.
handle_metadata_generation_after_generation_only(repo) ==
    LET data_files_staged == check_data_files_staged(repo)
        head == <<"check_data_files_staged", "has_file_changes">>
    IN  IF has_file_changes(repo)
        THEN LET gen == generate_metadata_main(repo)
                 status == check_metadata_status(gen.repo)
             IN  IF gen.raised
                 THEN MetadataOutcome(0, "Warning: Could not generate metadata.json",
                                      head \o <<"generate_metadata_main">>, gen.repo)
                 ELSE MetadataOutcome(
                          IF data_files_staged /\ status.modified /\ ~status.staged
                          THEN 1 ELSE 0, "generated",
                          head \o <<"generate_metadata_main", "check_metadata_status">>,
                          gen.repo)
        ELSE MetadataOutcome(0, "No changes detected, skipping metadata generation",
                             head, repo)

\* handle_metadata_generation (cli/commands/metadata.py)
handle_metadata_generation(repo) ==
    LET data_files_staged == check_data_files_staged(repo)
        head == <<"check_data_files_staged", "has_file_changes">>
    IN  IF has_file_changes(repo)
        THEN LET gen == generate_metadata_main(repo)
                 status == check_metadata_status(gen.repo)
                 called == head \o <<"generate_metadata_main", "check_metadata_status">>
             IN  IF gen.raised
                 THEN MetadataOutcome(0, "Warning: Could not generate metadata.json",
                                      head \o <<"generate_metadata_main">>, gen.repo)
                 ELSE IF data_files_staged /\ status.modified /\ ~status.staged
                 THEN MetadataOutcome(1, "ERROR: metadata.json was generated but is not staged!",
                                      called, gen.repo)
                 ELSE IF status.modified /\ status.staged
                 THEN MetadataOutcome(0, "metadata.json generated and staged",
                                      called, gen.repo)
                 ELSE IF status.modified
                 THEN MetadataOutcome(0, "metadata.json generated (not needed for this commit)",
                                      called, gen.repo)
                 ELSE MetadataOutcome(0, "metadata.json up to date", called, gen.repo)
        ELSE IF data_files_staged
        THEN LET status == check_metadata_status(repo)
                 called == head \o <<"check_metadata_status">>
             IN  IF status.modified /\ ~status.staged
                 THEN MetadataOutcome(1, "ERROR: metadata.json is modified but not staged!",
                                      called, repo)
                 ELSE MetadataOutcome(0, "No changes detected, skipping metadata generation",
                                      called, repo)
        ELSE MetadataOutcome(0, "No changes detected, skipping metadata generation",
                             head, repo)

\* validate_all_schemas (scripts/validators/schema.py): every mapping is
\* validated, and the result is 1 when any of them failed.
validate_all_schemas(repo) ==
    LET failed == {i \in 1..Len(repo.schema_results) : ~repo.schema_results[i]}
    IN  [code |-> IF failed # {} THEN 1 ELSE 0,
         called |-> [i \in 1..Len(repo.schema_results) |-> "validate_file"]]

\* What a command returns: its exit code (None when it raised), the exception,
\* the calls made in order, and the repository left behind.
CommandOutcome(code, raised, called, repo) ==
    [code |-> code, raised |-> raised, called |-> called, repo |-> repo]

\* cli validate_schema
cli_validate_schema(repo) ==
    LET result == validate_all_schemas(repo)
        called == <<"validate_all_schemas">> \o result.called
    IN  IF result.code # 0
        THEN CommandOutcome(result.code, None, called, repo)
        ELSE LET metadata_result == handle_metadata_generation(repo)
             IN  CommandOutcome(metadata_result.code, None,
                                called \o <<"handle_metadata_generation">>
                                       \o metadata_result.called,
                                metadata_result.repo)

\* cli validate_links(analyze=False)
cli_validate_links(repo, sd) ==
    IF InitCheck(repo.data) # None
    THEN CommandOutcome(None, InitCheck(repo.data), <<"DataLinksValidator">>, repo)
    ELSE LET va == validate_all(NewValidator, repo.data, sd)
         IN  IF va.raised # None
             THEN CommandOutcome(None, va.raised,
                                 <<"DataLinksValidator", "validator.validate_all">>, repo)
             ELSE CommandOutcome(cli_print_validate_mode(va.self.results).code, None,
                                 <<"DataLinksValidator", "validator.validate_all",
                                   "print_validate_mode">>, repo)

\* Variant of cli_validate_all: links validation runs whatever the schema
\* step returned.
cli_validate_all_runs_both(repo, sd) ==
    LET schema_result == cli_validate_schema(repo)
        links_result == cli_validate_links(schema_result.repo, sd)
        called == <<"validate_schema">> \o schema_result.called
                      \o <<"validate_links">> \o links_result.called
    IN  IF schema_result.code # 0
        THEN CommandOutcome(schema_result.code, None, called, links_result.repo)
        ELSE CommandOutcome(links_result.code, links_result.raised, called,
                            links_result.repo)

\* cli validate_all
cli_validate_all(repo, sd) ==
    LET schema_result == cli_validate_schema(repo)
        called == <<"validate_schema">> \o schema_result.called
    IN  IF schema_result.code # 0
        THEN CommandOutcome(schema_result.code, None, called, schema_result.repo)
        ELSE LET links_result == cli_validate_links(schema_result.repo, sd)
             IN  CommandOutcome(links_result.code, links_result.raised,
                                called \o <<"validate_links">> \o links_result.called,
                                links_result.repo)

----------------------------------------------------------------------------
\* Checksums and metadata.json (scripts/utils.py, scripts/generate_metadata.py).
\* A project is mappings.json (a list of schema path / data path pairs), the
\* mapped files that exist with their content, and metadata.json: absent,
\* malformed (no JSON), or written by the generator.  A path is <<directory, entity>>; a content stands for its bytes.

NoMetadataFile == [state |-> "absent"]
MalformedMetadata == [state |-> "malformed"]
Readable(metadata) == metadata.state = "written"

SchemaPath(e) == <<"schemas", e>>
DataPath(e) == <<"data", e>>

\* Path(p).exists()
path_exists(proj, path) == path \in proj.present

\* compute_checksum: SHA-256 of the bytes, one digest per content.
compute_checksum(proj, path) == <<"sha256", proj.content[path]>>

\* file_path.stat().st_size
st_size(proj, path) == IF proj.content[path] = "v1" THEN 1 ELSE 2

\* get_all_file_checksums: the checksums of the mapped schema and data files
\* that exist, each on its own.
get_all_file_checksums(proj) ==
    LET paths == {proj.mappings[i].schema : i \in 1..Len(proj.mappings)}
                    \cup {proj.mappings[i].data : i \in 1..Len(proj.mappings)}
    IN  [path \in {q \in paths : path_exists(proj, q)} |-> compute_checksum(proj, path)]

\* checksums.get(path_str, "")
ChecksumGet(checksums, path) == IF path \in DOMAIN checksums THEN checksums[path] ELSE ""

\* get_file_info
get_file_info(proj, path, checksums) ==
    [path |-> path, checksum |-> ChecksumGet(checksums, path), size |-> st_size(proj, path)]

\* extract_entity_name: the stem of the data file.
extract_entity_name(path) == path[2]

\* generate_metadata: one entity per mapping whose schema file and data file
\* both exist.
generate_metadata(proj, now) ==
    LET checksums == get_all_file_checksums(proj)
        kept == {i \in 1..Len(proj.mappings) :
                    path_exists(proj, proj.mappings[i].schema)
                        /\ path_exists(proj, proj.mappings[i].data)}
    IN  [state |-> "written", generated_at |-> now,
         entities |->
            [e \in {extract_entity_name(proj.mappings[i].data) : i \in kept} |->
                LET i == CHOOSE j \in kept : extract_entity_name(proj.mappings[j].data) = e
                IN  [data |-> get_file_info(proj, proj.mappings[i].data, checksums),
                     schema |-> get_file_info(proj, proj.mappings[i].schema, checksums)]]]

\* get_existing_checksums_from_metadata
get_existing_checksums_from_metadata(proj) ==
    IF ~Readable(proj.metadata) THEN << >>
    ELSE LET entities == proj.metadata.entities
             infos == {entities[e].data : e \in DOMAIN entities}
                         \cup {entities[e].schema : e \in DOMAIN entities}
             listed == {info \in infos : info.path # None}
         IN  [path \in {info.path : info \in listed} |->
                 (CHOOSE info \in listed : info.path = path).checksum]

\* has_file_changes (scripts/utils.py), on the files themselves.
checksums_differ(proj) ==
    get_all_file_checksums(proj) # get_existing_checksums_from_metadata(proj)

\* The metadata without its timestamp: pop("generated_at").
WithoutTimestamp(metadata) == metadata.entities

\* generate_metadata.main: the project afterwards; metadata.json is written
\* only when there was none, it was unreadable, or it differs from the new one
\* apart from generated_at.
metadata_main(proj, now) ==
    LET new_metadata == generate_metadata(proj, now)
        has_changes ==
            IF ~Readable(proj.metadata) THEN TRUE
            ELSE WithoutTimestamp(proj.metadata) # WithoutTimestamp(new_metadata)
    IN  IF has_changes THEN [proj EXCEPT !.metadata = new_metadata] ELSE proj

----------------------------------------------------------------------------
\* Operations.

\* returned: the last call made on the instance, whether it returned (rather
\* than raised) and, for validate_all, the findings it returned.
NoReturn == [call |-> "none", done |-> FALSE, results |-> NoResults]
NoPrev == [set |-> FALSE, results |-> NoResults, seed |-> << >>]

Reporters == {"links.validate", "links.analyze", "cli.validate", "cli.analyze"}

\* exit_code: per reporter, whether it was called and what it returned.
NotCalled == [called |-> FALSE, code |-> 0, line |-> ""]
NoExit == [fn \in Reporters |-> NotCalled]

\* The state before anything ran, for directory d under hash seed sd.
Start(d, sd) ==
    /\ dir = d
    /\ seed = sd
    /\ pc = "start"
    /\ self = NewValidator
    /\ reads = << >>
    /\ ran = << >>
    /\ returned = NoReturn
    /\ exc = None
    /\ calls = 0
    /\ prev = NoPrev
    /\ exit_code = NoExit

\* DataLinksValidator(data_dir)
Construct ==
    /\ pc = "start"
    /\ pc' = IF InitCheck(dir) = None THEN "constructed" ELSE "raised"
    /\ exc' = InitCheck(dir)
    /\ self' = NewValidator
    /\ UNCHANGED <<dir, seed, reads, ran, returned, calls, prev, exit_code>>

\* validator.load_data()
LoadData ==
    /\ pc = "constructed"
    /\ calls < MaxCalls
    /\ \E ld \in {load_data(self, dir)} :
           /\ self' = ld.self
           /\ reads' = reads \o ld.opened
    /\ calls' = calls + 1
    /\ exc' = None
    /\ returned' = [call |-> "load_data", done |-> TRUE, results |-> NoResults]
    /\ UNCHANGED <<dir, seed, pc, ran, prev, exit_code>>

\* validator.validate_all()
ValidateAll ==
    /\ pc = "constructed"
    /\ calls < MaxCalls
    /\ \E va \in {validate_all(self, dir, seed)} :
           /\ self' = va.self
           /\ reads' = reads \o va.opened
           /\ ran' = va.ran
           /\ exc' = va.raised
           /\ returned' = [call |-> "validate_all", done |-> va.raised = None,
                          results |-> va.self.results]
    /\ calls' = calls + 1
    /\ UNCHANGED <<dir, seed, pc, prev, exit_code>>

\* The instance made one call, a validate_all that returned.
FirstRunDone ==
    pc = "constructed" /\ calls = 1 /\ returned.call = "validate_all" /\ returned.done

\* A second validator instance on the same directory, in the same process.
NewInstance ==
    /\ FirstRunDone
    /\ ~prev.set
    /\ prev' = [set |-> TRUE, results |-> returned.results, seed |-> seed]
    /\ pc' = "start"
    /\ self' = NewValidator
    /\ reads' = << >>
    /\ ran' = << >>
    /\ returned' = NoReturn
    /\ calls' = 0
    /\ UNCHANGED <<dir, seed, exc, exit_code>>

\* A second validator instance on the same directory, in another process (a
\* second run of the command): str hashes are seeded anew.
NewProcess ==
    /\ FirstRunDone
    /\ ~prev.set
    /\ prev' = [set |-> TRUE, results |-> returned.results, seed |-> seed]
    /\ seed' \in Seeds
    /\ pc' = "start"
    /\ self' = NewValidator
    /\ reads' = << >>
    /\ ran' = << >>
    /\ returned' = NoReturn
    /\ calls' = 0
    /\ UNCHANGED <<dir, exc, exit_code>>

Report(fn, out) ==
    /\ returned.call = "validate_all"
    /\ returned.done
    /\ ~exit_code[fn].called
    /\ exit_code' =
          [exit_code EXCEPT ![fn] = [called |-> TRUE, code |-> out.code, line |-> out.line]]
    /\ UNCHANGED <<dir, seed, pc, self, reads, ran, returned, exc, calls, prev>>

\* validate_data_links(analyze=False): _print_validate_mode(results)
PrintValidateMode ==
    Report("links.validate", links_print_validate_mode(returned.results))

\* validate_data_links(analyze=True): _print_analyze_mode(results)
PrintAnalyzeMode ==
    Report("links.analyze", links_print_analyze_mode(returned.results))

\* cli validate_links(analyze=False): print_validate_mode(results)
CliPrintValidateMode ==
    Report("cli.validate", cli_print_validate_mode(returned.results))

\* cli validate_links(analyze=True): print_analyze_mode(results)
CliPrintAnalyzeMode ==
    Report("cli.analyze", cli_print_analyze_mode(returned.results))

\* A command ran on the repository: prev keeps the repository it started on,
\* ran the calls it made, exit_code what it returned.
Command(name, out) ==
    /\ pc = "shell"
    /\ calls < MaxCalls
    /\ prev' = [set |-> TRUE, repo |-> dir]
    /\ dir' = out.repo
    /\ ran' = out.called
    /\ exc' = out.raised
    /\ exit_code' = [command |-> name, code |-> out.code]
    /\ returned' = [call |-> name, done |-> out.raised = None, results |-> NoResults]
    /\ calls' = calls + 1
    /\ UNCHANGED <<seed, pc, self, reads>>

\* handle_metadata_generation()
HandleMetadataGeneration ==
    \E out \in {handle_metadata_generation(dir)} :
        Command("handle_metadata_generation",
                CommandOutcome(out.code, None, out.called, out.repo))

\* porto validate --type schema
CliValidateSchema == \E out \in {cli_validate_schema(dir)} : Command("validate_schema", out)

\* porto validate --type links
CliValidateLinks == \E out \in {cli_validate_links(dir, seed)} : Command("validate_links", out)

\* porto validate
CliValidateAll == \E out \in {cli_validate_all(dir, seed)} : Command("validate_all", out)

\* The files as a step finds them.
FilesOf(proj) == [present |-> proj.present, content |-> proj.content]

\* python scripts/generate_metadata.py: prev keeps the files as the last
\* run of the generator found them, and whether it wrote metadata.json.
GenerateMetadata ==
    /\ pc = "project"
    /\ calls < MaxCalls
    /\ \E out \in {metadata_main(dir, calls + 1)} :
           /\ dir' = out
           /\ prev' = [set |-> TRUE, files |-> FilesOf(dir), wrote |-> out # dir]
    /\ returned' = [call |-> "generate_metadata.main", done |-> TRUE, results |-> NoResults]
    /\ calls' = calls + 1
    /\ UNCHANGED <<seed, pc, self, reads, ran, exc, exit_code>>

\* has_file_changes()
HasFileChanges ==
    /\ pc = "project"
    /\ calls < MaxCalls
    /\ returned' = [call |-> "has_file_changes", done |-> TRUE, results |-> NoResults,
                    value |-> checksums_differ(dir)]
    /\ calls' = calls + 1
    /\ UNCHANGED <<dir, seed, pc, self, reads, ran, exc, prev, exit_code>>

\* Someone edits a mapped file.
EditFile ==
    /\ pc = "project"
    /\ calls < MaxCalls
    /\ \E path \in dir.present :
           dir' = [dir EXCEPT !.content[path] = IF @ = "v1" THEN "v2" ELSE "v1"]
    /\ returned' = [call |-> "edit", done |-> TRUE, results |-> NoResults]
    /\ calls' = calls + 1
    /\ UNCHANGED <<seed, pc, self, reads, ran, exc, prev, exit_code>>

----------------------------------------------------------------------------
\* Specifications.  Each draws the directory from a bounded family and runs
\* the operations the family is about.

\* The seed under which sets iterate in sorted order.  Where no set of two
\* or more elements is iterated every seed gives the same run.
SortedSeed == sorted(ZoneUniverse) \o sorted(TierUniverse)

\* --- Loading: every combination of present, missing and malformed files,
\* --- documents that are JSON null, and paths that are no directory.
LoadDocs ==
    { MinimalDocs,
      [MinimalDocs EXCEPT !.data_links = NullDoc],
      [MinimalDocs EXCEPT !.products = NullDoc] }

LoadDirs ==
    { Directory("absent", AllOk, MinimalDocs, AllDataFiles),
      Directory("file", AllOk, MinimalDocs, AllDataFiles) }
    \cup { Directory("dir", st, docs, AllDataFiles) :
              st \in [RequiredFiles -> {"ok", "missing", "malformed"}], docs \in LoadDocs }

InitLoad == \E d \in LoadDirs : Start(d, SortedSeed)

NextLoad == Construct \/ LoadData \/ ValidateAll

SpecLoad == InitLoad /\ [][NextLoad]_vars

\* --- Reporting: the reporters applied to arbitrary findings.
Findings == UNION {[1..n -> {F("finding", << >>)}] : n \in 0..MaxFindings}

AnyResults ==
    [errors : Findings, warnings : Findings, fixes_needed : Findings, correct : Findings]

InitReport ==
    \E res \in AnyResults :
        /\ dir = Directory("dir", AllOk, MinimalDocs, AllDataFiles)
        /\ seed = SortedSeed
        /\ pc = "constructed"
        /\ self = [NewValidator EXCEPT !.results = res]
        /\ reads = << >>
        /\ ran = << >>
        /\ returned = [call |-> "validate_all", done |-> TRUE, results |-> res]
        /\ exc = None
        /\ calls = 1
        /\ prev = NoPrev
        /\ exit_code = NoExit

NextReport ==
    PrintValidateMode \/ PrintAnalyzeMode \/ CliPrintValidateMode \/ CliPrintAnalyzeMode

SpecReport == InitReport /\ [][NextReport]_vars

\* --- Minimal document sets: no links, no prices, no services; the unit
\* --- blocks, the dependencies and the mapped file names vary.
MinimalDependencies ==
    { << >>,
      << Item("prices", Dependency(PRICES_FILE, <<PRODUCTS_FILE, "other.json">>)) >> }

\* The currency that goes with a price unit in these sets.
CurrencyFor(price_unit) == IF price_unit = None THEN None ELSE "EUR"

MinimalDocSets ==
    { [ data_links |->
            DataLinksDoc(UnitBlock(w[1], d[1], pu[1], CurrencyFor(pu[1])), deps, << >>, MinimalSettings),
        products |-> ProductsDoc(<< >>, UnitBlock(w[2], d[2], None, None)),
        zones |-> ZonesDoc({}),
        weight_tiers |-> WeightTiersDoc({}, UnitBlock(w[3], None, None, None)),
        services |-> ServicesDoc(<< >>),
        prices |-> PricesDoc(<< >>, << >>, UnitBlock(None, None, pu[2], CurrencyFor(pu[2]))),
        dimensions |-> DimensionsDoc(UnitBlock(None, d[3], None, None)) ] :
        w \in [1..3 -> {None, "g", "kg"}],
        d \in [1..3 -> {None, "mm"}],
        pu \in [1..2 -> {None, "cents"}],
        deps \in MinimalDependencies }

InitMinimal ==
    \E docs \in MinimalDocSets :
        Start(Directory("dir", AllOk, docs, AllDataFiles), SortedSeed)

NextMinimal == Construct \/ ValidateAll

SpecMinimal == InitMinimal /\ [][NextMinimal]_vars

\* --- Services: one service, and service prices whose histories vary.
HistoryValues == {"absent", None, "D1", "D2"}

Histories ==
    UNION {[1..n -> {PriceItem(e) : e \in HistoryValues}] : n \in 0..MaxHistory}

\* The service ids an entry can carry: S1 (in services.json unless the
\* family leaves it out), S2 (never in services.json), the empty string, or
\* no service_id key.
EntryServiceIds == {"S1", "S2", "", "absent"}

ServicePriceEntries ==
    {ServicePrice(sid, h) : sid \in EntryServiceIds, h \in Histories}

\* A second entry, after or before the one that varies.
OtherEntries ==
    { ServicePrice("S1", <<PriceItem("D1")>>),
      ServicePrice("S2", <<PriceItem(None), PriceItem("D2")>>) }

ServicePriceLists ==
    {<< >>}
    \cup {<<e>> : e \in ServicePriceEntries}
    \cup {<<e, o>> : e \in ServicePriceEntries, o \in OtherEntries}
    \cup {<<o, e>> : e \in ServicePriceEntries, o \in OtherEntries}

\* services.json: no service, or S1 without effective_to, with a null one,
\* or discontinued on D1 or D2.
ServiceLists ==
    { << >>,
      <<Service("S1", FALSE, None)>>,
      <<Service("S1", TRUE, None)>>,
      <<Service("S1", TRUE, "D1")>>,
      <<Service("S1", TRUE, "D2")>> }

\* Documents that agree on every unit, with the given services and prices.
ConsistentDocs(data_links, products, zone_ids, tier_ids, services, product_prices, service_prices) ==
    [ data_links |-> data_links,
      products |-> ProductsDoc(products, UnitBlock("g", "mm", None, None)),
      zones |-> ZonesDoc(zone_ids),
      weight_tiers |-> WeightTiersDoc(tier_ids, UnitBlock("g", None, None, None)),
      services |-> ServicesDoc(services),
      prices |-> PricesDoc(product_prices, service_prices,
                           UnitBlock(None, None, "cents", "EUR")),
      dimensions |-> DimensionsDoc(UnitBlock(None, "mm", None, None)) ]

ServiceDocSets ==
    { ConsistentDocs(DataLinksDoc(FullUnit, << >>, << >>, MinimalSettings),
                     << >>, {}, {}, svcs, << >>, sps) :
        svcs \in ServiceLists, sps \in ServicePriceLists }

InitServices ==
    \E docs \in ServiceDocSets :
        Start(Directory("dir", AllOk, docs, AllDataFiles), SortedSeed)

NextServices == Construct \/ ValidateAll

SpecServices == InitServices /\ [][NextServices]_vars

\* --- Links: products, links, zones, weight tiers and product prices vary;
\* --- a second instance runs in the same process or in a new one.
ProductP1 == Product("P1", <<"Z1">>, "W1")
ProductP2 == Product("P2", <<"Z1", "Z2">>, "W2")

ProductLists ==
    { << >>, <<ProductP1>>, <<ProductP1, ProductP2>>, <<ProductP2, ProductP1>> }

\* The link of P1 varies; a link can name several zones and weight tiers.
LinksOfP1 ==
    { Link(<<"Z1">>, <<"W1">>),
      Link(<<"Z1", "Z2">>, <<"W1">>),
      Link(<<"Z2", "Z1">>, <<"W2", "W1">>) }

LinkOfP2 == Link(<<"Z1", "Z2">>, <<"W2">>)

LinkLists ==
    { << >>, <<Item("P2", LinkOfP2)>> }
    \cup {<<Item("P1", l)>> : l \in LinksOfP1}
    \cup {<<Item("P1", l), Item("P2", LinkOfP2)>> : l \in LinksOfP1}
    \cup {<<Item("P2", LinkOfP2), Item("P1", l)>> : l \in LinksOfP1}

LinkDocSets ==
    { ConsistentDocs(DataLinksDoc(FullUnit, << >>, links, MinimalSettings),
                     products, zone_ids, tier_ids, << >>, product_prices, << >>) :
        products \in ProductLists,
        links \in LinkLists,
        zone_ids \in {{}, ZoneUniverse},
        tier_ids \in {{}, TierUniverse},
        product_prices \in {<< >>, <<ProductPrice("P1", "Z1", "W1")>>} }

Init ==
    \E docs \in LinkDocSets, sd \in Seeds :
        Start(Directory("dir", AllOk, docs, AllDataFiles), sd)

Next == Construct \/ ValidateAll \/ NewInstance \/ NewProcess

Spec == Init /\ [][Next]_vars

\* --- Link rules: the link of P1 and the record of P1 vary field by field;
\* --- a link of P2, which is no product, stands before or after it.
\* A link with only the keys ks.
LinkWith(ks, zs, ws) == [keys |-> ks, zones |-> zs, weight_tiers |-> ws]

LinkZoneLists ==
    { << >>, <<"Z1">>, <<"Z1", "Z1">>, <<"Z2", "Z1">>, <<"Z1", "Z2">>, <<"Z2">> }

LinkTierLists == { << >>, <<"W1">>, <<"W2", "W1">> }

RuleLinksOfP1 ==
    {Link(zs, ws) : zs \in LinkZoneLists, ws \in LinkTierLists}
    \cup {LinkWith({"weight_tiers"}, << >>, <<"W1">>), LinkWith({"zones"}, <<"Z1">>, << >>)}

\* P2 is in no products.json of this family; Z2 and W2 are unknown ids.
LinkOfUnknown == Link(<<"Z2", "Z1">>, <<"W2">>)

RuleLinkLists ==
    { << >>, <<Item("P2", LinkOfUnknown)>> }
    \cup {<<Item("P1", l)>> : l \in RuleLinksOfP1}
    \cup {<<Item("P2", LinkOfUnknown), Item("P1", l)>> : l \in RuleLinksOfP1}
    \cup {<<Item("P1", l), Item("P2", LinkOfUnknown)>> : l \in RuleLinksOfP1}

RuleProductLists ==
    { <<Product("P1", << >>, "W1")>>,
      <<Product("P1", <<"Z1">>, "W1")>>,
      <<Product("P1", <<"Z1", "Z2">>, "W1")>> }

RulePriceLists ==
    { << >>,
      <<ProductPrice("P1", "Z1", "W1")>>,
      <<ProductPrice("P2", "Z2", "W2"), ProductPrice("P1", "Z1", "W1")>>,
      <<ProductPrice("P1", "Z1", "W1"), ProductPrice("P1", "Z2", "W2")>> }

RuleDocSets ==
    { ConsistentDocs(DataLinksDoc(FullUnit, << >>, links, MinimalSettings),
                     products, {"Z1"}, {"W1"}, << >>, product_prices, << >>) :
        products \in RuleProductLists,
        links \in RuleLinkLists,
        product_prices \in RulePriceLists }

InitLinkRules ==
    \E docs \in RuleDocSets, sd \in Seeds :
        Start(Directory("dir", AllOk, docs, AllDataFiles), sd)

NextLinkRules == Construct \/ ValidateAll

SpecLinkRules == InitLinkRules /\ [][NextLinkRules]_vars

\* --- Lookup method: the match keys and the fields of the price entries vary.
\* A product-price entry without the field zone.
ProductPriceNoZone(pid, w) ==
    [keys |-> {"product_id", "weight_tier", "price"}, product_id |-> pid, weight_tier |-> w]

MatchKeySets ==
    { {}, {"description"}, {"weight_tier"}, {"zone", "description"},
      {"product_id", "zone", "weight_tier"} }

LookupPriceLists ==
    { << >>,
      <<ProductPrice("P1", "Z1", "W1")>>,
      <<ProductPriceNoZone("P1", "W1")>>,
      <<ProductPriceNoZone("P1", "W1"), ProductPrice("P1", "Z1", "W1")>>,
      <<ProductPrice("P1", "Z1", "W1"), ProductPriceNoZone("P1", "W1")>> }

LookupDocSets ==
    { ConsistentDocs(
          DataLinksDoc(FullUnit, << >>, << >>,
                       GlobalSettings(PRICES_FILE, file, array, match_keys, << >>)),
          << >>, {}, {}, << >>, product_prices, << >>) :
        file \in {PRICES_FILE, "other.json"},
        array \in {EXPECTED_LOOKUP_ARRAY, "prices.other"},
        match_keys \in MatchKeySets,
        product_prices \in LookupPriceLists }

InitLookup ==
    \E docs \in LookupDocSets :
        Start(Directory("dir", AllOk, docs, AllDataFiles), SortedSeed)

NextLookup == Construct \/ ValidateAll

SpecLookup == InitLookup /\ [][NextLookup]_vars

\* --- Units: the unit blocks vary, and a document may be the empty JSON
\* --- object {}.
EmptyDoc == [tag |-> "dict", keys |-> {}]

UnitDocSets ==
    LET base == {docs \in MinimalDocSets : docs.data_links.dependencies = << >>}
    IN  base
        \cup {[docs EXCEPT !.products = EmptyDoc] : docs \in base}
        \cup {[docs EXCEPT !.dimensions = EmptyDoc] : docs \in base}

InitUnits ==
    \E docs \in UnitDocSets :
        Start(Directory("dir", AllOk, docs, AllDataFiles), SortedSeed)

NextUnits == Construct \/ ValidateAll

SpecUnits == InitUnits /\ [][NextUnits]_vars

\* --- The unit helper alone: validate_unit_consistency is called on one
\* --- results dict, each time with the observed values handed over in some
\* --- order (the first one as data_links_value).
CategoryNames == {"errors", "warnings", "fixes_needed", "correct"}

\* The category a call appended to.
CategoryAdded(before, after) ==
    CHOOSE cat \in CategoryNames : Len(after[cat]) = Len(before[cat]) + 1

\* The calls validate_units makes: the unit name, the canonical value and the
\* file names, with the values the documents hold.
UnitCalls ==
    { [kind |-> "values", unit_name |-> "weight", expected_value |-> EXPECTED_WEIGHT_UNIT,
       file_names |-> <<DATA_LINKS_FILE, PRODUCTS_FILE, WEIGHT_TIERS_FILE>>,
       values |-> vals] : vals \in [1..3 -> {None, "g", "kg"}] }
    \cup
    { [kind |-> "values", unit_name |-> "currency", expected_value |-> EXPECTED_CURRENCY,
       file_names |-> <<DATA_LINKS_FILE, PRICES_FILE>>,
       values |-> vals] : vals \in [1..2 -> {None, "EUR", "cents"}] }

InitUnitHelper ==
    /\ dir \in UnitCalls
    /\ seed = SortedSeed
    /\ pc = "helper"
    /\ self = NewValidator
    /\ reads = << >>
    /\ ran = << >>
    /\ returned = NoReturn
    /\ exc = None
    /\ calls = 0
    /\ prev = NoPrev
    /\ exit_code = NoExit

\* validate_unit_consistency(..., results=self.results, ...), the values in
\* the order perm; ran records the category each call appended to.
CallUnitConsistency ==
    /\ pc = "helper"
    /\ calls < MaxCalls
    /\ \E perm \in Perms(DOMAIN dir.values) :
          \E r \in { validate_unit_consistency(
                        dir.unit_name, dir.values[perm[1]], dir.expected_value,
                        dir.file_names, Collector(self.results),
                        [i \in 1..(Len(perm) - 1) |-> dir.values[perm[i + 1]]]) } :
             /\ self' = [self EXCEPT !.results = ResultsOf(r)]
             /\ ran' = Append(ran, CategoryAdded(self.results, ResultsOf(r)))
             /\ returned' = [call |-> "validate_unit_consistency", done |-> TRUE,
                             results |-> ResultsOf(r)]
    /\ calls' = calls + 1
    /\ UNCHANGED <<dir, seed, pc, reads, exc, prev, exit_code>>

NextUnitHelper == CallUnitConsistency

SpecUnitHelper == InitUnitHelper /\ [][NextUnitHelper]_vars

\* --- Dependencies: up to two dependency entries over three files, and
\* --- some lists of three entries (a file described twice, a 3-cycle).
DependencyFiles == {PRODUCTS_FILE, PRICES_FILE, ZONES_FILE}

DependsOnLists ==
    { << >>, <<PRICES_FILE>>, <<PRODUCTS_FILE>>, <<ZONES_FILE>>,
      <<ZONES_FILE, PRODUCTS_FILE>> }

DependencyEntries == {Dependency(f, d) : f \in DependencyFiles, d \in DependsOnLists}

\* The entries of a dependencies object under the names d1, d2, ...
Named(entries) ==
    [i \in 1..Len(entries) |-> Item(<<"d1", "d2", "d3">>[i], entries[i])]

PricesOnProducts == Dependency(PRICES_FILE, <<PRODUCTS_FILE>>)
PricesOnNothing == Dependency(PRICES_FILE, << >>)
ProductsOnPrices == Dependency(PRODUCTS_FILE, <<PRICES_FILE>>)

DependencyLists ==
    {<< >>}
    \cup {Named(<<a>>) : a \in DependencyEntries}
    \cup {Named(<<a, b>>) : a \in DependencyEntries, b \in DependencyEntries}
    \cup { Named(<<PricesOnProducts, PricesOnNothing, ProductsOnPrices>>),
           Named(<<PricesOnNothing, PricesOnProducts, ProductsOnPrices>>),
           Named(<<ProductsOnPrices, PricesOnProducts, PricesOnProducts>>),
           Named(<<Dependency(PRODUCTS_FILE, <<ZONES_FILE>>),
                   Dependency(ZONES_FILE, <<PRICES_FILE>>),
                   Dependency(PRICES_FILE, <<PRODUCTS_FILE>>)>>),
           Named(<<[keys |-> {"depends_on"}, file |-> None, depends_on |-> <<PRICES_FILE>>],
                   [keys |-> {"file"}, file |-> PRICES_FILE, depends_on |-> << >>]>>),
           Named(<<Dependency("products", <<"prices">>),
                   Dependency("prices", <<PRODUCTS_FILE>>)>>) }

DependencyDocSets ==
    { ConsistentDocs(DataLinksDoc(FullUnit, deps, << >>, MinimalSettings),
                     << >>, {}, {}, << >>, << >>, << >>) :
        deps \in DependencyLists }

InitDependencies ==
    \E docs \in DependencyDocSets :
        Start(Directory("dir", AllOk, docs, AllDataFiles), SortedSeed)

NextDependencies == Construct \/ ValidateAll

SpecDependencies == InitDependencies /\ [][NextDependencies]_vars

\* --- Optional fields: records from which optional fields are missing.
\* A product with an id only, a price entry without weight_tier, a service
\* price without a history, a dependency entry without any field.
ProductBare(id) ==
    [keys |-> {"id"}, id |-> id, supported_zones |-> << >>, weight_tier |-> None]

ProductPriceNoTier(pid, z) ==
    [keys |-> {"product_id", "zone", "price"}, product_id |-> pid, zone |-> z,
     weight_tier |-> None]

ServicePriceNoHistory(sid) == [keys |-> {"service_id"}, service_id |-> sid, price |-> << >>]

DependencyBare == [keys |-> {}, file |-> None, depends_on |-> << >>]

OptionalDocSets ==
    { ConsistentDocs(DataLinksDoc(FullUnit, deps, links, MinimalSettings),
                     products, {"Z1"}, {"W1"}, <<Service("S1", FALSE, None)>>,
                     product_prices, service_prices) :
        deps \in {<< >>, <<Item("d1", DependencyBare)>>},
        links \in { << >>,
                    <<Item("P1", Link(<<"Z1">>, <<"W1">>))>>,
                    <<Item("P1", LinkWith({}, << >>, << >>))>> },
        products \in {<<Product("P1", <<"Z1">>, "W1")>>, <<ProductBare("P1")>>},
        product_prices \in { << >>,
                             <<ProductPrice("P1", "Z1", "W1")>>,
                             <<ProductPriceNoTier("P1", "Z1")>>,
                             <<ProductPrice("P1", "Z1", "W1"), ProductPriceNoTier("P2", "Z1")>> },
        service_prices \in {<< >>, <<ServicePriceNoHistory("S1")>>} }

InitOptional ==
    \E docs \in OptionalDocSets :
        Start(Directory("dir", AllOk, docs, AllDataFiles), SortedSeed)

NextOptional == Construct \/ ValidateAll

SpecOptional == InitOptional /\ [][NextOptional]_vars

\* --- The command line: every outcome of the schema validations, of the git
\* probes and of the generator, over a data directory that passes, one that
\* fails and one that does not exist.
SchemaResults == UNION {[1..n -> BOOLEAN] : n \in 0..MaxMappings}

\* Documents on which every rule passes.
CleanDocs ==
    ConsistentDocs(DataLinksDoc(FullUnit, << >>, << >>, MinimalSettings),
                   << >>, {}, {}, << >>, << >>, << >>)

DataDirs ==
    { Directory("dir", AllOk, CleanDocs, AllDataFiles),
      Directory("dir", AllOk, MinimalDocs, AllDataFiles),
      Directory("dir", [AllOk EXCEPT ![PRODUCTS_FILE] = "missing"], MinimalDocs, AllDataFiles),
      Directory("absent", AllOk, MinimalDocs, AllDataFiles) }

Repositories ==
    [ schema_results : SchemaResults, changes : BOOLEAN, data_staged : BOOLEAN,
      modified : BOOLEAN, staged : BOOLEAN, generation : {"raises", "keeps", "writes"},
      data : DataDirs ]

InitCli ==
    /\ dir \in Repositories
    /\ seed = SortedSeed
    /\ pc = "shell"
    /\ self = NewValidator
    /\ reads = << >>
    /\ ran = << >>
    /\ returned = NoReturn
    /\ exc = None
    /\ calls = 0
    /\ prev = [set |-> FALSE, repo |-> dir]
    /\ exit_code = [command |-> "none", code |-> None]

NextCli == HandleMetadataGeneration \/ CliValidateSchema \/ CliValidateLinks \/ CliValidateAll

SpecCli == InitCli /\ [][NextCli]_vars

\* --- Order: directories on which several rules add findings to the same
\* category: links of two products and of an unknown id in either order, an
\* unknown zone, an unpriced pair, unknown services, unknown and circular
\* dependencies, a weight unit that differs and a lookup array that differs.
OrderLinkLists ==
    { << >>,
      <<Item("P1", Link(<<"Z1">>, <<"W1">>))>>,
      <<Item("P1", Link(<<"Z1", "Z2">>, <<"W1">>)), Item("P2", Link(<<"Z2">>, <<"W2">>))>>,
      <<Item("P2", Link(<<"Z1", "Z2">>, <<"W1">>)), Item("P1", Link(<<"Z2">>, <<"W2">>))>>,
      <<Item("P3", Link(<<"Z2">>, <<"W1">>)), Item("P1", Link(<<"Z2">>, <<"W2">>))>>,
      <<Item("P1", Link(<<"Z2">>, <<"W2">>)), Item("P3", Link(<<"Z2">>, <<"W1">>))>> }

OrderDependencyLists ==
    { << >>,
      <<Item("d1", Dependency("other.json", <<"other.json">>))>>,
      <<Item("d1", Dependency(PRICES_FILE, <<PRODUCTS_FILE>>)),
        Item("d2", Dependency(PRODUCTS_FILE, <<PRICES_FILE, "other.json">>))>> }

OrderDocSets ==
    { ConsistentDocs(
          DataLinksDoc(UnitBlock(w, "mm", "cents", "EUR"), deps, links,
                       GlobalSettings(PRICES_FILE, PRICES_FILE, array, {}, available)),
          <<Product("P1", <<"Z1">>, "W1"), Product("P2", <<"Z1">>, "W1")>>,
          {"Z1"}, {"W1"}, <<Service("S1", FALSE, None)>>,
          <<ProductPrice("P1", "Z1", "W1")>>, sps) :
        w \in {"g", "kg"},
        deps \in OrderDependencyLists,
        links \in OrderLinkLists,
        array \in {EXPECTED_LOOKUP_ARRAY, "prices"},
        available \in {<< >>, <<"S1", "S2">>},
        sps \in {<< >>, <<ServicePrice("S2", << >>)>>} }

InitOrder ==
    \E docs \in OrderDocSets, sd \in Seeds :
        Start(Directory("dir", AllOk, docs, AllDataFiles), sd)

NextOrder == Construct \/ ValidateAll

SpecOrder == InitOrder /\ [][NextOrder]_vars

\* --- Repeated calls: one instance called twice, on directories that pass,
\* that have rule errors, and in which one document is missing or malformed.
OneFileBad ==
    {AllOk} \cup {[AllOk EXCEPT ![f] = st] : f \in RequiredFiles, st \in {"missing", "malformed"}}

RepeatDocSets ==
    { CleanDocs, MinimalDocs,
      ConsistentDocs(DataLinksDoc(FullUnit, << >>,
                                  <<Item("P1", Link(<<"Z1">>, <<"W1", "W2">>))>>,
                                  MinimalSettings),
                     <<Product("P1", <<"Z1">>, "W1")>>, {"Z1"}, {"W1", "W2"}, << >>,
                     <<ProductPrice("P1", "Z1", "W1")>>, << >>),
      ConsistentDocs(DataLinksDoc(FullUnit, << >>,
                                  <<Item("P2", Link(<<"Z1">>, <<"W1">>))>>,
                                  MinimalSettings),
                     <<Product("P1", <<"Z1">>, "W1")>>, {"Z1"}, {"W1"}, << >>, << >>, << >>) }

InitRepeat ==
    \E st \in OneFileBad, docs \in RepeatDocSets :
        Start(Directory("dir", st, docs, AllDataFiles), SortedSeed)

NextRepeat == Construct \/ LoadData \/ ValidateAll

SpecRepeat == InitRepeat /\ [][NextRepeat]_vars

\* --- Coverage: dependencies sections that describe any subset of the data
\* files, with or without an entry for data_links.json, an entry for a file
\* that is no data file, and a depends_on name that is no data file.
\* One entry per file of the set, under the file's name, in ascending order.
EntriesFor(files, depends_on) ==
    [i \in 1..Cardinality(files) |->
        Item(sorted(files)[i], Dependency(sorted(files)[i], depends_on))]

CoverageLists ==
    { EntriesFor(described \cup extra, depends_on) :
        described \in SUBSET (AllDataFiles \ {DATA_LINKS_FILE}),
        extra \in SUBSET {DATA_LINKS_FILE, "other.json"},
        depends_on \in {<< >>, <<"other.json">>} }

CoverageDocSets ==
    { ConsistentDocs(DataLinksDoc(FullUnit, deps, << >>, MinimalSettings),
                     << >>, {}, {}, << >>, << >>, << >>) :
        deps \in CoverageLists }

InitCoverage ==
    \E docs \in CoverageDocSets :
        Start(Directory("dir", AllOk, docs, AllDataFiles), SortedSeed)

NextCoverage == Construct \/ ValidateAll

SpecCoverage == InitCoverage /\ [][NextCoverage]_vars

\* --- Lookup array: the array value is the expected literal, another path,
\* or left out, and the prices document has the path prices.product_prices,
\* lacks product_prices, lacks prices, or is the empty object.
PricesUnit == UnitBlock(None, None, "cents", "EUR")

PricesDocs ==
    { PricesDoc(<<ProductPrice("P1", "Z1", "W1")>>, << >>, PricesUnit),
      PricesDoc(<< >>, << >>, PricesUnit),
      [PricesDoc(<< >>, << >>, PricesUnit) EXCEPT !.prices.keys = {"service_prices"}],
      [PricesDoc(<< >>, << >>, PricesUnit) EXCEPT !.keys = DocKeys({}, PricesUnit),
                                                  !.prices.keys = {}],
      EmptyDoc }

\* lookup_method with the given keys only.
LookupSettings(ks, file, array) ==
    [GlobalSettings(PRICES_FILE, file, array, {}, << >>) EXCEPT !.lookup_method.keys = ks]

LookupArraySettings ==
    { LookupSettings({"file", "array", "match"}, file, array) :
        file \in {PRICES_FILE, "other.json"},
        array \in {EXPECTED_LOOKUP_ARRAY, "prices.other", "prices", ""} }
    \cup {LookupSettings({"file", "match"}, PRICES_FILE, "")}

LookupArrayDocSets ==
    { [ConsistentDocs(DataLinksDoc(FullUnit, << >>, << >>, settings),
                      << >>, {}, {}, << >>, << >>, << >>) EXCEPT !.prices = prices] :
        settings \in LookupArraySettings, prices \in PricesDocs }

InitLookupArray ==
    \E docs \in LookupArrayDocSets :
        Start(Directory("dir", AllOk, docs, AllDataFiles), SortedSeed)

NextLookupArray == Construct \/ ValidateAll

SpecLookupArray == InitLookupArray /\ [][NextLookupArray]_vars

\* --- Metadata: up to MaxMappings mappings, every subset of the mapped files
\* on disk, and no metadata.json or an unreadable one to start with.
MappingLists ==
    { [i \in 1..n |-> [schema |-> SchemaPath(i), data |-> DataPath(i)]] : n \in 1..MaxMappings }

MappedPaths(mappings) ==
    {mappings[i].schema : i \in 1..Len(mappings)} \cup {mappings[i].data : i \in 1..Len(mappings)}

Projects ==
    UNION { { [kind |-> "project", mappings |-> mappings, present |-> present,
               content |-> [path \in MappedPaths(mappings) |-> "v1"], metadata |-> metadata] :
                present \in SUBSET MappedPaths(mappings), metadata \in {NoMetadataFile, MalformedMetadata} } :
            mappings \in MappingLists }

InitMetadata ==
    /\ dir \in Projects
    /\ seed = SortedSeed
    /\ pc = "project"
    /\ self = NewValidator
    /\ reads = << >>
    /\ ran = << >>
    /\ returned = NoReturn
    /\ exc = None
    /\ calls = 0
    /\ prev = [set |-> FALSE, files |-> FilesOf(dir), wrote |-> FALSE]
    /\ exit_code = NoExit

NextMetadata == GenerateMetadata \/ HasFileChanges \/ EditFile

SpecMetadata == InitMetadata /\ [][NextMetadata]_vars

----------------------------------------------------------------------------
\* Properties.

\* Some required document of the directory is missing or is not valid JSON.
SomeFileBad == \E f \in RequiredFiles : dir.status[f] # "ok"

\* The last call on the instance was its first, and it was validate_all.
FirstValidateAll == pc = "constructed" /\ calls = 1 /\ returned.call = "validate_all"

IndicesEmpty(v) ==
    /\ DOMAIN v.product_dict = {}
    /\ DOMAIN v.zone_ids = {}
    /\ v.weight_tier_ids = {}
    /\ DOMAIN v.service_ids = {}
    /\ v.product_prices = << >>
    /\ v.service_prices = << >>
    /\ v.all_data_files = {}

\* C1: when a required document is missing or malformed, validate_all on a
\* fresh instance returns exactly one error, "Missing file" or "Invalid JSON",
\* no other finding, leaves every lookup index empty and starts no rule,
\* however many documents are bad.
C1_LoadFailureAborts ==
    (FirstValidateAll /\ SomeFileBad) =>
        /\ returned.done
        /\ Len(returned.results.errors) = 1
        /\ returned.results.errors[1].kind \in {"Missing file", "Invalid JSON"}
        /\ returned.results.warnings = << >>
        /\ returned.results.fixes_needed = << >>
        /\ returned.results.correct = << >>
        /\ returned.results = self.results
        /\ IndicesEmpty(self)
        /\ ran = << >>

\* C1 witness: validate_all has returned for a directory in which data_links
\* loaded, one later document is missing and another is malformed.
C1_Witness ==
    /\ FirstValidateAll
    /\ returned.done
    /\ dir.status[DATA_LINKS_FILE] = "ok"
    /\ \E f \in RequiredFiles : dir.status[f] = "missing"
    /\ \E f \in RequiredFiles : dir.status[f] = "malformed"
    /\ ~IsNone(self.data_links)

\* C2: constructing a validator on a path that does not exist or is no
\* directory raises (does-not-exist first, then not-a-directory); no
\* instance exists, so nothing is read and no finding is recorded.
C2_BadPathRaises ==
    (dir.kind # "dir") =>
        /\ pc \in {"start", "raised"}
        /\ reads = << >>
        /\ self.results = NoResults
        /\ calls = 0
        /\ pc = "raised" =>
              exc = IF dir.kind = "absent"
                    THEN "FileNotFoundError: does not exist"
                    ELSE "ValueError: not a directory"

\* C2 witness: construction on a path that is a file has raised.
C2_Witness == dir.kind = "file" /\ pc = "raised" /\ exc = "ValueError: not a directory"

\* All seven documents were read without error since the instance was built.
LoadSucceeded ==
    /\ pc = "constructed"
    /\ ~SomeFileBad
    /\ Len(reads) >= Len(LoadOrder)

\* C7 (as claimed): after a first successful load_data, a further load_data
\* call changes nothing on the instance and reads no file.
C7_LoadIsMemoized ==
    [][(LoadSucceeded /\ returned'.call = "load_data" /\ calls' = calls + 1)
          => (self' = self /\ reads' = reads)]_vars

\* The exit code the specification gives validate mode: 0 iff no errors.
ExpectedExit(res) == IF res.errors = << >> THEN 0 ELSE 1

\* C3: in validate mode the exit code is 0 iff errors is empty, whatever the
\* other three categories hold, and _print_validate_mode and the CLI's
\* print_validate_mode return the same code.
C3_ValidateExitCode ==
    /\ \A fn \in {"links.validate", "cli.validate"} :
          exit_code[fn].called => exit_code[fn].code = ExpectedExit(returned.results)
    /\ (exit_code["links.validate"].called /\ exit_code["cli.validate"].called)
          => exit_code["links.validate"].code = exit_code["cli.validate"].code

\* C3 witness: both validate-mode reporters returned 0 on findings with no
\* error but with fixes_needed, warnings and correct entries.
C3_Witness ==
    /\ exit_code["links.validate"].called
    /\ exit_code["cli.validate"].called
    /\ exit_code["cli.validate"].code = 0
    /\ returned.results.errors = << >>
    /\ returned.results.fixes_needed # << >>
    /\ returned.results.warnings # << >>
    /\ returned.results.correct # << >>

TotalFindings(res) ==
    Len(res.errors) + Len(res.fixes_needed) + Len(res.warnings) + Len(res.correct)

\* C4: in analyze mode the exit code is 0 when there is no finding at all,
\* otherwise 1 if errors is non-empty and 0 if it is empty; so it equals the
\* validate-mode code and does not depend on the correct findings.
C4_AnalyzeExitCode ==
    /\ \A fn \in {"links.analyze", "cli.analyze"} :
          exit_code[fn].called =>
             /\ exit_code[fn].code =
                   IF TotalFindings(returned.results) = 0 THEN 0
                   ELSE IF returned.results.errors # << >> THEN 1 ELSE 0
             /\ \A gn \in {"links.validate", "cli.validate"} :
                   exit_code[gn].called => exit_code[gn].code = exit_code[fn].code

\* C4 witness: analyze mode and validate mode both returned 0 on findings
\* without errors but with fixes_needed and warnings.
C4_Witness ==
    /\ exit_code["links.analyze"].called
    /\ exit_code["cli.analyze"].called
    /\ exit_code["links.validate"].called
    /\ exit_code["links.analyze"].code = 0
    /\ returned.results.errors = << >>
    /\ returned.results.fixes_needed # << >>
    /\ returned.results.warnings # << >>

\* The values a unit dimension has in the documents that carry it, read off
\* the directory.
UnitValuesOnDisk(name) ==
    LET docs == dir.docs
        val(doc) == IF "unit" \in doc.keys /\ name \in doc.unit.keys
                    THEN doc.unit[name] ELSE None
    IN  CASE name = "weight" ->
                {val(docs.data_links), val(docs.products), val(docs.weight_tiers)}
          [] name = "dimension" ->
                {val(docs.data_links), val(docs.products), val(docs.dimensions)}
          [] OTHER -> {val(docs.data_links), val(docs.prices)}

\* Per unit dimension, the participating documents agree (or all lack it).
UnitsAgreeOnDisk ==
    \A name \in {"weight", "dimension", "price", "currency"} :
        Cardinality(UnitValuesOnDisk(name)) = 1

\* C5 (as claimed): validate_all on the minimal_data_files fixture returns
\* no error.
C5_FixtureHasNoErrors ==
    (FirstRunDone /\ dir.docs = MinimalDocs) => returned.results.errors = << >>

\* C5 (amended): a minimal document set whose documents agree on every unit
\* dimension yields no error; the fixture, whose data_links alone carries
\* weight and dimension units, yields exactly the two unit-mismatch errors.
C5_MinimalSetsHaveNoErrors ==
    FirstRunDone =>
        /\ UnitsAgreeOnDisk => returned.results.errors = << >>
        /\ dir.docs = MinimalDocs =>
              /\ Len(returned.results.errors) = 2
              /\ \A i \in 1..2 : returned.results.errors[i].kind = "unit mismatch"
              /\ returned.results.errors[1].args[1] = <<"weight">>
              /\ returned.results.errors[2].args[1] = <<"dimension">>

\* C5 witness: a run over a minimal set that agrees on its units, with a
\* shared weight unit that is not the expected one, returned no error.
C5_Witness ==
    /\ FirstRunDone
    /\ UnitsAgreeOnDisk
    /\ UnitValuesOnDisk("weight") = {"kg"}
    /\ returned.results.errors = << >>
    /\ returned.results.warnings # << >>

\* A second instance has run validate_all on the directory of the first.
SecondRunDone == prev.set /\ FirstRunDone

\* C6 (as claimed): validate_all on a second fresh instance over the same
\* unchanged directory returns the same four finding lists, entry for entry
\* and in the same order, as on the first.
C6_RunsAreIdentical ==
    SecondRunDone => returned.results = prev.results

\* C6, within one process: under one hash seed the second run returns what
\* the first did.
C6_SameSeedRunsAreIdentical ==
    (SecondRunDone /\ prev.seed = seed) => returned.results = prev.results

\* The ids of the missing products, read off the directory.
ProductIdsOnDisk ==
    LET ps == dir.docs.products.products IN {ps[i].id : i \in 1..Len(ps)}

LinkKeysOnDisk ==
    LET ls == dir.docs.data_links.links IN {ls[i].key : i \in 1..Len(ls)}

MissingOnDisk == ProductIdsOnDisk \ LinkKeysOnDisk

CompletenessKinds ==
    {"Products in products.json but not in links", "All products are in links"}

\* The completeness findings of one category, in order.
CompletenessIn(findings) ==
    SelectSeq(findings, LAMBDA f : f.kind \in CompletenessKinds)

\* s lists the strings of S once each, in ascending order.
ListsAscending(s, S) ==
    /\ Len(s) = Cardinality(S)
    /\ \A x \in S : \E i \in 1..Len(s) : s[i] = x
    /\ \A i, j \in 1..Len(s) : i < j => Rank(s[i]) < Rank(s[j])

\* C10: a run produces exactly one completeness finding: a single
\* fixes_needed entry listing all missing product ids in ascending order when
\* some product is not a key of links, else a single correct entry; links keys
\* that are no product do not matter.
C10_OneCompletenessFinding ==
    FirstRunDone =>
        LET res == returned.results
            fixes == CompletenessIn(res.fixes_needed)
            correct == CompletenessIn(res.correct)
        IN  /\ CompletenessIn(res.errors) = << >>
            /\ CompletenessIn(res.warnings) = << >>
            /\ Len(fixes) + Len(correct) = 1
            /\ MissingOnDisk # {} =>
                  /\ Len(fixes) = 1
                  /\ fixes[1].kind = "Products in products.json but not in links"
                  /\ Len(fixes[1].args) = 1
                  /\ ListsAscending(fixes[1].args[1], MissingOnDisk)
            /\ MissingOnDisk = {} =>
                  /\ Len(correct) = 1
                  /\ correct[1] = F("All products are in links", << >>)

\* C10 witness: products P2 and P1, in that order on disk, have no link; the
\* run returned one fixes_needed entry listing P1, P2.
C10_Witness ==
    /\ FirstRunDone
    /\ dir.docs.products.products = <<ProductP2, ProductP1>>
    /\ MissingOnDisk = {"P1", "P2"}
    /\ \E i \in 1..Len(returned.results.fixes_needed) :
          returned.results.fixes_needed[i] =
             F("Products in products.json but not in links", << <<"P1", "P2">> >>)

\* C10 second case, reached too: a link whose key is no product, nothing
\* missing, one correct entry.
C10_ExtraLinkReached ==
    /\ FirstRunDone
    /\ MissingOnDisk = {}
    /\ LinkKeysOnDisk \ ProductIdsOnDisk # {}
    /\ CompletenessIn(returned.results.correct) = <<F("All products are in links", << >>)>>

\* --- Service prices, read off the directory.
ServicesOnDisk == dir.docs.services.services
ServicePricesOnDisk == dir.docs.prices.prices.service_prices

\* The positions of a history that carry a non-null effective_to.
NonNullAt(h) ==
    {i \in 1..Len(h) : "effective_to" \in h[i].keys /\ h[i].effective_to # None}

FirstNonNullAt(h) == CHOOSE i \in NonNullAt(h) : \A j \in NonNullAt(h) : i <= j

\* The effective_to a history resolves to, None when it has none.
ResolvedEffectiveTo(h) ==
    IF NonNullAt(h) = {} THEN None ELSE h[FirstNonNullAt(h)].effective_to

HasServiceId(entry) == "service_id" \in entry.keys /\ entry.service_id \notin {None, ""}

ServiceRecords(sid) ==
    {ServicesOnDisk[i] : i \in {k \in 1..Len(ServicesOnDisk) : ServicesOnDisk[k].id = sid}}

\* What the contract asks of one service-price entry: no finding or one error.
ExpectedOfEntry(entry) ==
    LET sid == entry.service_id
        d == ResolvedEffectiveTo(entry.price)
    IN  IF ~HasServiceId(entry) \/ d = None THEN << >>
        ELSE IF ServiceRecords(sid) = {}
        THEN <<F("Service has prices but service not found", << <<sid>> >>)>>
        ELSE LET service == CHOOSE svc \in ServiceRecords(sid) : TRUE
                 sd == IF "effective_to" \in service.keys THEN service.effective_to
                       ELSE None
             IN  IF sd = None
                 THEN <<F("Service must be marked as discontinued", << <<sid>>, <<d>> >>)>>
                 ELSE IF sd # d
                 THEN <<F("Dates must match", << <<sid>>, <<d>>, <<sd>> >>)>>
                 ELSE << >>

RECURSIVE ExpectedOfEntries(_)
ExpectedOfEntries(entries) ==
    IF entries = << >> THEN << >>
    ELSE ExpectedOfEntry(Head(entries)) \o ExpectedOfEntries(Tail(entries))

ServicePriceKinds ==
    { "Service has prices but service not found",
      "Service must be marked as discontinued",
      "Dates must match" }

\* C8: each service-price entry with a non-empty service_id whose history
\* resolves to a non-null effective_to gives exactly one error when the service
\* is unknown ("not found"), has no effective_to ("discontinued", naming the
\* service) or has a different one ("Dates must match"), and none when the
\* dates are equal; an entry whose history resolves to nothing gives no
\* finding at all.
C8_ServicePriceConsistency ==
    FirstRunDone =>
        /\ returned.results.errors = ExpectedOfEntries(ServicePricesOnDisk)
        /\ \A i \in 1..Len(returned.results.warnings) :
              returned.results.warnings[i].kind \notin ServicePriceKinds
        /\ \A i \in 1..Len(returned.results.fixes_needed) :
              returned.results.fixes_needed[i].kind \notin ServicePriceKinds
        /\ \A i \in 1..Len(returned.results.correct) :
              returned.results.correct[i].kind \notin ServicePriceKinds

\* C8 witness: two entries, S1 whose dates differ from the service's and S2
\* which is no service, gave a "Dates must match" and a "not found" error.
C8_Witness ==
    /\ FirstRunDone
    /\ Len(ServicePricesOnDisk) = 2
    /\ Len(returned.results.errors) = 2
    /\ returned.results.errors[1].kind = "Dates must match"
    /\ returned.results.errors[2] =
          F("Service has prices but service not found", << <<"S2">> >>)

\* C8 further cases, reached too: a discontinued price of a service without
\* effective_to, and equal dates with no error.
C8_DiscontinuedReached ==
    /\ FirstRunDone
    /\ returned.results.errors =
          <<F("Service must be marked as discontinued", << <<"S1">>, <<"D2">> >>)>>

C8_EqualDatesReached ==
    /\ FirstRunDone
    /\ ServicePricesOnDisk = <<ServicePrice("S1", <<PriceItem(None), PriceItem("D1")>>)>>
    /\ ServicesOnDisk = <<Service("S1", TRUE, "D1")>>
    /\ returned.results.errors = << >>

\* The entry with its history cut after the first non-null effective_to.
CutAfterFirst(entry) ==
    IF NonNullAt(entry.price) = {} THEN entry
    ELSE [entry EXCEPT !.price = SubSeq(entry.price, 1, FirstNonNullAt(entry.price))]

CutAll(entries) == [i \in 1..Len(entries) |-> CutAfterFirst(entries[i])]

\* The price dates the date-carrying errors name, in order.
DatesNamed(errors) ==
    LET dated == SelectSeq(errors, LAMBDA f : Len(f.args) >= 2)
    IN  [i \in 1..Len(dated) |-> dated[i].args[2][1]]

\* C9: the date an entry is compared with is the first non-null effective_to
\* of its history in list order: the errors are those of the same entries cut
\* after that item, every date an error names stands at the first non-null
\* position of an entry, and no entry gives more than one error, so later
\* items change nothing and report nothing.
C9_FirstNonNullWins ==
    FirstRunDone =>
        /\ returned.results.errors = ExpectedOfEntries(CutAll(ServicePricesOnDisk))
        /\ Len(returned.results.errors) <= Len(ServicePricesOnDisk)
        /\ \A i \in 1..Len(DatesNamed(returned.results.errors)) :
              \E k \in 1..Len(ServicePricesOnDisk) :
                 LET h == ServicePricesOnDisk[k].price
                 IN  /\ NonNullAt(h) # {}
                     /\ h[FirstNonNullAt(h)].effective_to =
                           DatesNamed(returned.results.errors)[i]

\* C9 witness: the history of S1 is D2 then D1 and the service ends on D1;
\* the one error names D2 (a sorted or reversed search would find D1 and
\* report nothing).
C9_Witness ==
    /\ FirstRunDone
    /\ ServicePricesOnDisk = <<ServicePrice("S1", <<PriceItem("D2"), PriceItem("D1")>>)>>
    /\ ServicesOnDisk = <<Service("S1", TRUE, "D1")>>
    /\ returned.results.errors =
          <<F("Dates must match", << <<"S1">>, <<"D2">>, <<"D1">> >>)>>

\* --- Links and products, read off the directory.
LinksOnDisk == dir.docs.data_links.links
ProductsOnDisk == dir.docs.products.products
ProductPricesOnDisk == dir.docs.prices.prices.product_prices

\* The ids a link or a product lists under a key, as a set; none when the
\* key is absent.
IdsUnder(rec, key) == IF key \in rec.keys THEN ToSet(rec[key]) ELSE {}

ProductRecord(pid) ==
    CHOOSE pr \in ToSet(ProductsOnDisk) : pr.id = pid

\* The positions of the links whose key is, or is not, a product.
KnownLinks == {i \in 1..Len(LinksOnDisk) : LinksOnDisk[i].key \in ProductIdsOnDisk}
UnknownLinks == {i \in 1..Len(LinksOnDisk) : LinksOnDisk[i].key \notin ProductIdsOnDisk}

ExistenceKinds == {"Zone does not exist", "Weight tier does not exist"}

PerProductKinds ==
    { "zones match", "zones mismatch", "weight_tier is in links",
      "weight_tier from product not in links",
      "prices exist for weight_tiers but not in links",
      "all price weight_tiers match links", "No price found",
      "Product in links does not exist" }

\* The product a finding of per-product link validation names, else None.
ProductNamed(f) ==
    IF f.kind \in ExistenceKinds THEN f.args[2][1]
    ELSE IF f.kind \in PerProductKinds THEN f.args[1][1]
    ELSE None

\* The findings of one category that name product pid, in order.
Naming(findings, pid) == SelectSeq(findings, LAMBDA f : ProductNamed(f) = pid)

OfKind(findings, kinds) == SelectSeq(findings, LAMBDA f : f.kind \in kinds)

ZoneKinds == {"zones match", "zones mismatch"}

\* C11: for every link of a known product the zone-consistency check gives
\* exactly one finding: correct when the link's zones and the product's
\* supported_zones are the same set, else a fixes_needed entry showing both
\* sets in ascending order; a subset or a superset is a mismatch.
C11_ZoneConsistency ==
    FirstRunDone =>
        \A i \in KnownLinks :
            LET pid == LinksOnDisk[i].key
                lz == IdsUnder(LinksOnDisk[i].value, "zones")
                pz == IdsUnder(ProductRecord(pid), "supported_zones")
                res == returned.results
                ok == OfKind(Naming(res.correct, pid), ZoneKinds)
                fix == OfKind(Naming(res.fixes_needed, pid), ZoneKinds)
            IN  /\ OfKind(Naming(res.errors, pid), ZoneKinds) = << >>
                /\ OfKind(Naming(res.warnings, pid), ZoneKinds) = << >>
                /\ Len(ok) + Len(fix) = 1
                /\ lz = pz =>
                      /\ Len(ok) = 1
                      /\ ok[1].kind = "zones match"
                      /\ ListsAscending(ok[1].args[2], lz)
                /\ lz # pz =>
                      /\ Len(fix) = 1
                      /\ fix[1].kind = "zones mismatch"
                      /\ ListsAscending(fix[1].args[2], lz)
                      /\ ListsAscending(fix[1].args[3], pz)

\* C11 witness: the link of P1 has zones [] and P1 supports Z1; the run gave
\* the one fixes_needed entry with links [] and product ['Z1'].
C11_Witness ==
    /\ FirstRunDone
    /\ \E i \in KnownLinks :
          /\ LinksOnDisk[i].key = "P1"
          /\ "zones" \in LinksOnDisk[i].value.keys
          /\ LinksOnDisk[i].value.zones = << >>
    /\ ProductsOnDisk = <<Product("P1", <<"Z1">>, "W1")>>
    /\ OfKind(returned.results.fixes_needed, ZoneKinds) =
          <<F("zones mismatch", << <<"P1">>, << >>, <<"Z1">> >>)>>

\* C11 further cases, reached too: duplicates and order ignored; a strict
\* subset is a mismatch.
C11_DuplicatesReached ==
    /\ FirstRunDone
    /\ \E i \in KnownLinks : LinksOnDisk[i].value.zones = <<"Z1", "Z1">>
    /\ OfKind(returned.results.correct, ZoneKinds) =
          <<F("zones match", << <<"P1">>, <<"Z1">> >>)>>

C11_SubsetReached ==
    /\ FirstRunDone
    /\ \E i \in KnownLinks : LinksOnDisk[i].value.zones = <<"Z1">>
    /\ ProductsOnDisk = <<Product("P1", <<"Z1", "Z2">>, "W1")>>
    /\ OfKind(returned.results.fixes_needed, ZoneKinds) =
          <<F("zones mismatch", << <<"P1">>, <<"Z1">>, <<"Z1", "Z2">> >>)>>

\* C12: a link whose key is no product gives exactly one error naming it and
\* no other finding of per-product link validation (no existence error, no
\* consistency finding, no coverage warning), and the links after it are
\* still validated.
C12_UnknownProductSkipped ==
    FirstRunDone =>
        \A i \in UnknownLinks :
            LET pid == LinksOnDisk[i].key
                res == returned.results
            IN  /\ Naming(res.errors, pid) =
                      <<F("Product in links does not exist", << <<pid>> >>)>>
                /\ Naming(res.warnings, pid) = << >>
                /\ Naming(res.fixes_needed, pid) = << >>
                /\ Naming(res.correct, pid) = << >>
                /\ \A j \in KnownLinks :
                      Len(OfKind(Naming(res.correct, LinksOnDisk[j].key), ZoneKinds))
                        + Len(OfKind(Naming(res.fixes_needed, LinksOnDisk[j].key), ZoneKinds))
                        = 1

\* C12 witness: the link of P2, no product, with unknown zone Z2 and tier W2
\* and with a price on disk, stands before the link of P1; the run named P2 in
\* one error only and went on to P1.
C12_Witness ==
    /\ FirstRunDone
    /\ Len(LinksOnDisk) = 2
    /\ LinksOnDisk[1] = Item("P2", LinkOfUnknown)
    /\ LinksOnDisk[2].key = "P1"
    /\ Len(ProductPricesOnDisk) = 2
    /\ Naming(returned.results.errors, "P2") =
          <<F("Product in links does not exist", << <<"P2">> >>)>>
    /\ Naming(returned.results.correct, "P1") # << >>

\* The product-price entries on disk of product pid.
PricesOnDiskOf(pid) ==
    {i \in 1..Len(ProductPricesOnDisk) : ProductPricesOnDisk[i].product_id = pid}

\* The scenario of C18: P1 supports Z1 with tier W1, both known ids, its link
\* declares zones [Z1] and weight_tiers [W1], and its one price is (P1, Z1, W1).
FullyLinkedP1 ==
    /\ ProductsOnDisk = <<Product("P1", <<"Z1">>, "W1")>>
    /\ \E i \in KnownLinks :
          /\ LinksOnDisk[i].key = "P1"
          /\ LinksOnDisk[i].value = Link(<<"Z1">>, <<"W1">>)
    /\ \E k \in PricesOnDiskOf("P1") :
          /\ PricesOnDiskOf("P1") = {k}
          /\ ProductPricesOnDisk[k] = ProductPrice("P1", "Z1", "W1")

\* C18: in that scenario the run gives the three correct findings for P1
\* (zones match, weight_tier is in links, all price weight_tiers match links)
\* and no error, fixes_needed or warning naming P1.
C18_FullyLinkedProduct ==
    (FirstRunDone /\ FullyLinkedP1) =>
        /\ Naming(returned.results.correct, "P1") =
              << F("zones match", << <<"P1">>, <<"Z1">> >>),
                 F("weight_tier is in links", << <<"P1">>, <<"W1">> >>),
                 F("all price weight_tiers match links", << <<"P1">>, <<"W1">> >>) >>
        /\ Naming(returned.results.errors, "P1") = << >>
        /\ Naming(returned.results.fixes_needed, "P1") = << >>
        /\ Naming(returned.results.warnings, "P1") = << >>
        /\ \A i \in 1..Len(returned.results.fixes_needed) :
              returned.results.fixes_needed[i].kind # "Products in products.json but not in links"

\* C18 witness: the scenario with a price of another product on disk as well.
C18_Witness ==
    /\ FirstRunDone
    /\ FullyLinkedP1
    /\ Len(ProductPricesOnDisk) = 2
    /\ Len(Naming(returned.results.correct, "P1")) = 3

\* --- The lookup method, read off the directory.
MatchKeysOnDisk == dir.docs.data_links.global_settings.lookup_method.match.keys

MatchKinds ==
    { "No product prices found to validate lookup_method.match keys",
      "lookup_method.match keys do not exist in price entries",
      "lookup_method.match keys exist in price entries" }

\* C13: the match check gives exactly one finding per run: a warning when
\* there is no product-price entry, else an error listing the missing match
\* keys and the fields of the first entry when a match key other than
\* description is no field of the first entry, else a correct finding; entries
\* after the first are not consulted.
C13_MatchKeys ==
    FirstRunDone =>
        LET res == returned.results
            checked == MatchKeysOnDisk \ {"description"}
            err == OfKind(res.errors, MatchKinds)
            warn == OfKind(res.warnings, MatchKinds)
            ok == OfKind(res.correct, MatchKinds)
        IN  /\ OfKind(res.fixes_needed, MatchKinds) = << >>
            /\ Len(err) + Len(warn) + Len(ok) = 1
            /\ ProductPricesOnDisk = << >> =>
                  warn = <<F("No product prices found to validate lookup_method.match keys",
                             << >>)>>
            /\ ProductPricesOnDisk # << >> =>
                  LET first == ProductPricesOnDisk[1].keys
                  IN  /\ ~(checked \subseteq first) =>
                            /\ Len(err) = 1
                            /\ err[1].kind =
                                  "lookup_method.match keys do not exist in price entries"
                            /\ ListsAscending(err[1].args[1], checked \ first)
                            /\ ListsAscending(err[1].args[2], first)
                      /\ checked \subseteq first =>
                            /\ Len(ok) = 1
                            /\ ok[1].kind = "lookup_method.match keys exist in price entries"
                            /\ ListsAscending(ok[1].args[1], checked)

\* C13 witness: match names zone, the first price entry has no zone field and
\* the second has; the run gave the one error listing zone and the first
\* entry's fields.
C13_Witness ==
    /\ FirstRunDone
    /\ MatchKeysOnDisk = {"zone", "description"}
    /\ Len(ProductPricesOnDisk) = 2
    /\ "zone" \notin ProductPricesOnDisk[1].keys
    /\ "zone" \in ProductPricesOnDisk[2].keys
    /\ OfKind(returned.results.errors, MatchKinds) =
          <<F("lookup_method.match keys do not exist in price entries",
              << <<"zone">>, <<"price", "product_id", "weight_tier">> >>)>>

\* C13 further case, reached too: the key is absent from every entry.
C13_AbsentEverywhereReached ==
    /\ FirstRunDone
    /\ "zone" \in MatchKeysOnDisk
    /\ ProductPricesOnDisk = <<ProductPriceNoZone("P1", "W1")>>
    /\ Len(OfKind(returned.results.errors, MatchKinds)) = 1

\* --- Units.
UnitNames == {"weight", "dimension", "price", "currency"}

UnitKinds ==
    { "Unit is consistent across all files",
      "Unit is consistent but verify it's correct",
      "unit mismatch" }

CanonicalUnit(name) ==
    CASE name = "weight" -> "g" [] name = "dimension" -> "mm"
      [] name = "price" -> "cents" [] name = "currency" -> "EUR"

\* The unit findings of one category about unit dimension name.
UnitFindings(findings, name) ==
    SelectSeq(findings, LAMBDA f : f.kind \in UnitKinds /\ f.args[1] = <<name>>)

\* What rule 7 asks for dimension name: one finding, in the category the
\* values on disk decide.
OneUnitFinding(res, name) ==
    LET values == UnitValuesOnDisk(name)
        ok == UnitFindings(res.correct, name)
        warn == UnitFindings(res.warnings, name)
        err == UnitFindings(res.errors, name)
    IN  /\ UnitFindings(res.fixes_needed, name) = << >>
        /\ Len(ok) + Len(warn) + Len(err) = 1
        /\ values = {CanonicalUnit(name)} => Len(ok) = 1
        /\ (Cardinality(values) = 1 /\ values # {CanonicalUnit(name)}) => Len(warn) = 1
        /\ Cardinality(values) > 1 => Len(err) = 1

\* C14 (as claimed): for every loaded document set and each of the four unit
\* dimensions, unit validation appends exactly one finding: correct when all
\* participating values are the canonical one, warning when they are
\* identical but not canonical (all absent included), error when they differ;
\* a document lacking the field contributes null.
C14_OneFindingPerUnit ==
    FirstRunDone => \A name \in UnitNames : OneUnitFinding(returned.results, name)

\* The documents that take part in unit dimension name.
UnitParticipants(name) ==
    CASE name = "weight" -> {"data_links", "products", "weight_tiers"}
      [] name = "dimension" -> {"data_links", "products", "dimensions"}
      [] OTHER -> {"data_links", "prices"}

\* C14, what the code does: one finding per dimension whose participating
\* documents are all non-empty objects, and none for a dimension of which a
\* participating document is {}.
C14_OneFindingUnlessEmptyDocument ==
    FirstRunDone =>
        \A name \in UnitNames :
            IF \A a \in UnitParticipants(name) : dir.docs[a].keys # {}
            THEN OneUnitFinding(returned.results, name)
            ELSE \A cat \in {"errors", "warnings", "fixes_needed", "correct"} :
                    UnitFindings(returned.results[cat], name) = << >>

\* Reached: products.json is {}, data_links and weight_tiers disagree on the
\* weight unit, and the run returned no finding about weight.
C14_EmptyDocumentReached ==
    /\ FirstRunDone
    /\ dir.docs.products = EmptyDoc
    /\ Cardinality(UnitValuesOnDisk("weight")) > 1
    /\ \A cat \in {"errors", "warnings", "correct"} :
          UnitFindings(returned.results[cat], "weight") = << >>

\* C15: the category of the finding validate_unit_consistency appends does
\* not depend on which document supplies which of the observed values, the
\* first (data_links) one included, and a second call on the same values
\* appends to the same category: every call appends exactly one finding and
\* all calls on the same values append to the same category.
C15_CategoryIsOrderIndependent ==
    pc = "helper" =>
        /\ Len(ran) = calls
        /\ TotalFindings(self.results) = calls
        /\ \A i, j \in 1..Len(ran) : ran[i] = ran[j]

\* C15 witness: two calls on values of which only one is the canonical one,
\* handing over a different value first each time, both appended an error.
C15_Witness ==
    /\ pc = "helper"
    /\ calls = 2
    /\ ran = <<"errors", "errors">>
    /\ self.results.errors[1].args[3][1] = dir.expected_value
    /\ self.results.errors[2].args[3][1] # dir.expected_value

\* --- Dependencies, read off the directory.
DependenciesOnDisk == dir.docs.data_links.dependencies

\* The file an entry describes and the files it depends on, as graph nodes.
NodeOf(entry) == StripJson(IF "file" \in entry.keys THEN entry.file ELSE "")
TargetsOf(entry) ==
    {StripJson(x) : x \in IdsUnder(entry, "depends_on")}

\* Some entry declares that a depends on b.
Declares(a, b) ==
    \E i \in 1..Len(DependenciesOnDisk) :
        /\ NodeOf(DependenciesOnDisk[i].value) = a
        /\ b \in TargetsOf(DependenciesOnDisk[i].value)

\* The last entry that describes a declares that a depends on b.
LastDeclares(a, b) ==
    \E i \in 1..Len(DependenciesOnDisk) :
        /\ NodeOf(DependenciesOnDisk[i].value) = a
        /\ b \in TargetsOf(DependenciesOnDisk[i].value)
        /\ \A j \in (i + 1)..Len(DependenciesOnDisk) :
              NodeOf(DependenciesOnDisk[j].value) # a

CircularIn(findings) == OfKind(findings, {"Circular dependency detected"})

\* C16 (as claimed): exactly one warning about a circular dependency whenever
\* the dependencies declare that products depends on prices and prices on
\* products, nothing for every other graph, and never an error or
\* fixes_needed.
C16_CircularWarning ==
    FirstRunDone =>
        /\ CircularIn(returned.results.errors) = << >>
        /\ CircularIn(returned.results.fixes_needed) = << >>
        /\ CircularIn(returned.results.correct) = << >>
        /\ Len(CircularIn(returned.results.warnings)) =
              IF Declares("products", "prices") /\ Declares("prices", "products")
              THEN 1 ELSE 0

\* C16, what the code does: of the entries describing one file only the last
\* counts.
C16_LastEntryPerFileCounts ==
    FirstRunDone =>
        /\ CircularIn(returned.results.errors) = << >>
        /\ CircularIn(returned.results.fixes_needed) = << >>
        /\ CircularIn(returned.results.correct) = << >>
        /\ Len(CircularIn(returned.results.warnings)) =
              IF LastDeclares("products", "prices") /\ LastDeclares("prices", "products")
              THEN 1 ELSE 0

\* Reached: the two entries products -> [prices], prices -> [products] alone
\* give the warning; a 2-cycle between products and zones gives none.
C16_WarningReached ==
    /\ FirstRunDone
    /\ Len(DependenciesOnDisk) = 2
    /\ Len(CircularIn(returned.results.warnings)) = 1

C16_OtherCycleReached ==
    /\ FirstRunDone
    /\ Declares("products", "zones") /\ Declares("zones", "products")
    /\ CircularIn(returned.results.warnings) = << >>

\* validate_all was the last call on the instance.
ValidateAllCalled == pc = "constructed" /\ returned.call = "validate_all"

\* C17 (as claimed): once the seven documents have loaded, validate_all does
\* not raise whatever optional fields are missing from the records: every rule
\* runs to the end and the call returns its findings.
C17_RulesNeverRaise ==
    (ValidateAllCalled /\ ~SomeFileBad) =>
        /\ exc = None
        /\ returned.done
        /\ ran = Rules

\* Some price entry of a linked product has no weight_tier field.
LinkedPriceWithoutTier ==
    \E i \in KnownLinks :
        \E k \in PricesOnDiskOf(LinksOnDisk[i].key) :
            "weight_tier" \notin ProductPricesOnDisk[k].keys

\* C17, what the code does: validate_all raises KeyError, in validate_links,
\* exactly when a price entry of a linked product has no weight_tier field;
\* the other missing fields are read as empty.
C17_RaisesOnPriceWithoutTier ==
    (ValidateAllCalled /\ ~SomeFileBad) =>
        IF LinkedPriceWithoutTier
        THEN /\ exc = "KeyError"
             /\ ~returned.done
             /\ ran = <<"validate_lookup_method", "validate_links">>
        ELSE /\ exc = None
             /\ returned.done
             /\ ran = Rules

\* Reached: the call raised; and a run over records with every optional field
\* missing (but no such price entry) returned.
C17_RaiseReached == ValidateAllCalled /\ exc = "KeyError"

C17_BareRecordsReached ==
    /\ ValidateAllCalled
    /\ returned.done
    /\ ProductsOnDisk = <<ProductBare("P1")>>
    /\ LinksOnDisk = <<Item("P1", LinkWith({}, << >>, << >>))>>
    /\ ServicePricesOnDisk = <<ServicePriceNoHistory("S1")>>
    /\ DependenciesOnDisk = <<Item("d1", DependencyBare)>>

\* The command that ran last, and the repository it started on.
LastCommand == exit_code.command

RepoBefore == prev.repo

Called(name) == \E i \in 1..Len(ran) : ran[i] = name

\* What git reports for metadata.json when the handler reads its status on
\* repository repo: a generation that wrote the file leaves it modified.
ModifiedWhenChecked(repo) ==
    IF repo.changes /\ repo.generation = "writes" THEN TRUE ELSE repo.modified

GenerationRaised(repo) == repo.changes /\ repo.generation = "raises"

StagingProblem(repo) ==
    /\ ~GenerationRaised(repo)
    /\ repo.data_staged
    /\ ModifiedWhenChecked(repo)
    /\ ~repo.staged

\* C19: handle_metadata_generation returns 1 exactly when data/schema files
\* are staged and metadata.json is modified but not staged, with or without
\* detected changes, provided the generation did not raise; otherwise 0, also
\* when the generation raises.  The generator is called exactly when
\* has_file_changes reports a change.
C19_MetadataExitCode ==
    (LastCommand = "handle_metadata_generation") =>
        /\ exit_code.code = IF StagingProblem(RepoBefore) THEN 1 ELSE 0
        /\ exc = None
        /\ Called("generate_metadata_main") <=> RepoBefore.changes

\* Reached: 1 without detected changes, 1 after a generation, and 0 after a
\* generation that raised on a repository with unstaged metadata.
C19_Witness ==
    /\ LastCommand = "handle_metadata_generation"
    /\ exit_code.code = 1
    /\ ~RepoBefore.changes

C19_AfterGenerationReached ==
    /\ LastCommand = "handle_metadata_generation"
    /\ exit_code.code = 1
    /\ Called("generate_metadata_main")
    /\ ~RepoBefore.modified

C19_RaisedReached ==
    /\ LastCommand = "handle_metadata_generation"
    /\ exit_code.code = 0
    /\ GenerationRaised(RepoBefore)
    /\ RepoBefore.data_staged /\ RepoBefore.modified /\ ~RepoBefore.staged

\* Positions of a call in the trace of the last command.
PositionsOf(name) == {i \in 1..Len(ran) : ran[i] = name}

SchemasPass(repo) == \A i \in 1..Len(repo.schema_results) : repo.schema_results[i]

\* What the schema step returns on repository repo: 1 when a schema
\* validation failed, else what the metadata handler returns.
SchemaStepCode(repo) ==
    IF ~SchemasPass(repo) THEN 1
    ELSE IF StagingProblem(repo) THEN 1 ELSE 0

\* The metadata handler starts only after every schema validation was made.
MetadataAfterSchemas ==
    \A h \in PositionsOf("handle_metadata_generation") :
        /\ \A f \in PositionsOf("validate_file") : f < h
        /\ Cardinality(PositionsOf("validate_file")) = Len(RepoBefore.schema_results)

\* C20: validate_all runs the schema step first and links validation only
\* when that step returned 0; a non-zero schema result is returned and links
\* validation is not started.  In the schema step the metadata handler runs
\* only after all schema validations passed, and the step returns what the
\* handler returned.
C20_SchemaBeforeLinks ==
    /\ (LastCommand = "validate_all") =>
          /\ ran[1] = "validate_schema"
          /\ \A l \in PositionsOf("validate_links") : 1 < l
          /\ Called("validate_links") <=> SchemaStepCode(RepoBefore) = 0
          /\ SchemaStepCode(RepoBefore) # 0 =>
                 /\ exit_code.code = SchemaStepCode(RepoBefore)
                 /\ ~Called("DataLinksValidator")
                 /\ exc = None
    /\ (LastCommand \in {"validate_all", "validate_schema"}) =>
          /\ Called("handle_metadata_generation") <=> SchemasPass(RepoBefore)
          /\ MetadataAfterSchemas
    /\ (LastCommand = "validate_schema") =>
          exit_code.code = SchemaStepCode(RepoBefore)

\* Reached: validate_all stopped by a failed schema validation; stopped by
\* the metadata handler; and gone on to links validation, which failed.
C20_Witness ==
    /\ LastCommand = "validate_all"
    /\ exc = None
    /\ ~SchemasPass(RepoBefore)
    /\ exit_code.code = 1
    /\ ~Called("validate_links")

C20_StoppedByMetadataReached ==
    /\ LastCommand = "validate_all"
    /\ exc = None
    /\ SchemasPass(RepoBefore)
    /\ Len(RepoBefore.schema_results) = MaxMappings
    /\ Called("handle_metadata_generation")
    /\ exit_code.code = 1
    /\ ~Called("validate_links")

C20_LinksFailedReached ==
    /\ LastCommand = "validate_all"
    /\ exc = None
    /\ Called("validate_links")
    /\ exit_code.code = 1

C20_LinksPassedReached ==
    /\ LastCommand = "validate_all"
    /\ exc = None
    /\ Called("print_validate_mode")
    /\ exit_code.code = 0

Categories == {"errors", "warnings", "fixes_needed", "correct"}

\* The place of a finding in the fixed order: the rule that records it and,
\* within per-product links, the position of the link it names; within units,
\* the position of the unit.
RuleOfKind(kind) ==
    CASE kind \in { "matches actual file", "references but file doesn't exist", "should be",
                    "lookup_method.array matches actual structure",
                    "Lookup method references but structure doesn't match",
                    "Lookup method array path - verify",
                    "No product prices found to validate lookup_method.match keys",
                    "lookup_method.match keys do not exist in price entries",
                    "lookup_method.match keys exist in price entries" } -> 1
      [] kind \in ExistenceKinds \cup PerProductKinds -> 2
      [] kind \in { "Products in products.json but not in links",
                    "All products are in links" } -> 3
      [] kind \in { "All zones in links are valid",
                    "All weight_tiers in links are valid" } -> 4
      [] kind \in { "Service in available_services does not exist",
                    "Service is listed as available but has no price",
                    "Service has prices but service not found",
                    "Service must be marked as discontinued", "Dates must match" } -> 5
      [] kind \in { "Dependency is not a known data file",
                    "Dependency file is not a known data file",
                    "Data files not in dependencies section",
                    "All data files are covered in dependencies section" } -> 6
      [] kind \in UnitKinds -> 7
      [] kind = "Circular dependency detected" -> 8

UnitOrder == <<"weight", "dimension", "price", "currency">>

PlaceWithinRule(f) ==
    IF RuleOfKind(f.kind) = 2
    THEN CHOOSE i \in 1..Len(LinksOnDisk) : LinksOnDisk[i].key = ProductNamed(f)
    ELSE IF RuleOfKind(f.kind) = 7
    THEN CHOOSE i \in 1..4 : <<UnitOrder[i]>> = f.args[1]
    ELSE 0

ComesNoLater(f, g) ==
    \/ RuleOfKind(f.kind) < RuleOfKind(g.kind)
    \/ /\ RuleOfKind(f.kind) = RuleOfKind(g.kind)
       /\ PlaceWithinRule(f) <= PlaceWithinRule(g)

InRuleOrder(findings) ==
    \A i \in 1..Len(findings) : \A j \in 1..Len(findings) :
        i < j => ComesNoLater(findings[i], findings[j])

IsPrefix(s, t) == Len(s) <= Len(t) /\ \A i \in 1..Len(s) : s[i] = t[i]

RECURSIVE CollectorAfter(_)
\* The collector of the run on the loaded documents after its first k rules.
CollectorAfter(k) ==
    IF k = 0 THEN Collector(NoResults)
    ELSE RunRule(Rules[k], self, seed, CollectorAfter(k - 1))

\* validate_all returned on the first call, after running the rules.
SuccessfulRun ==
    /\ ValidateAllCalled
    /\ calls = 1
    /\ returned.done
    /\ ran # << >>

\* C21: in each category the findings of a successful run stand in the rule
\* order (lookup method, links in key order, completeness, aggregate validity,
\* services, dependencies, units in the order weight, dimension, price,
\* currency, circular dependencies), and each rule leaves what earlier rules
\* recorded in place: the lists before a rule are prefixes of the lists after.
C21_FindingsInRuleOrder ==
    SuccessfulRun =>
        /\ ran = Rules
        /\ \A c \in Categories : InRuleOrder(returned.results[c])
        /\ \A k \in 1..Len(Rules) : \A c \in Categories :
              IsPrefix(CollectorAfter(k - 1)[c], CollectorAfter(k)[c])
        /\ ResultsOf(CollectorAfter(Len(Rules))) = returned.results

\* Reached: errors of three rules and warnings of five in one run, with the
\* links of P2 and P1 in that order.
C21_Witness ==
    /\ SuccessfulRun
    /\ {RuleOfKind(returned.results.errors[i].kind) :
            i \in 1..Len(returned.results.errors)} = {2, 5, 7}
    /\ {RuleOfKind(returned.results.warnings[i].kind) :
            i \in 1..Len(returned.results.warnings)} = {1, 2, 5, 6, 8}
    /\ Len(LinksOnDisk) = 2
    /\ LinksOnDisk[1].key = "P2"

\* The zone and weight-tier sets link i declares.
DeclaredZones(i) == IdsUnder(LinksOnDisk[i].value, "zones")
DeclaredTiers(i) == IdsUnder(LinksOnDisk[i].value, "weight_tiers")

\* The (zone, weight tier) pairs of link i that no price entry on disk matches.
UnpricedPairs(i) ==
    { pair \in DeclaredZones(i) \X DeclaredTiers(i) :
        ~\E k \in PricesOnDiskOf(LinksOnDisk[i].key) :
            /\ ProductPricesOnDisk[k].zone = pair[1]
            /\ ProductPricesOnDisk[k].weight_tier = pair[2] }

CoverageKinds == {"No price found"}

\* The price-coverage warnings about product pid, in order.
CoverageWarnings(pid) == OfKind(Naming(returned.results.warnings, pid), CoverageKinds)

\* C22: for every link of a known product the price-coverage warnings are,
\* one each, the pairs of declared zones x declared weight tiers that no
\* product-price entry matches; a priced pair gives none, an empty declared set
\* gives none, and price coverage adds no error and no fixes_needed.
C22_PriceCoverage ==
    SuccessfulRun =>
        /\ \A i \in KnownLinks :
              LET warned == CoverageWarnings(LinksOnDisk[i].key)
              IN  /\ Len(warned) = Cardinality(UnpricedPairs(i))
                  /\ {<<warned[k].args[2][1], warned[k].args[3][1]>> : k \in 1..Len(warned)}
                         = UnpricedPairs(i)
        /\ \A i \in UnknownLinks : CoverageWarnings(LinksOnDisk[i].key) = << >>
        /\ OfKind(returned.results.errors, CoverageKinds) = << >>
        /\ OfKind(returned.results.fixes_needed, CoverageKinds) = << >>
        /\ OfKind(returned.results.correct, CoverageKinds) = << >>

\* Reached: a link with a priced pair and an unpriced pair; a link with two
\* unpriced pairs; and a link with zones but an empty weight-tier set.
C22_Witness ==
    /\ SuccessfulRun
    /\ \E i \in KnownLinks :
          /\ DeclaredZones(i) = {"Z1", "Z2"}
          /\ DeclaredTiers(i) = {"W1"}
          /\ UnpricedPairs(i) = {<<"Z2", "W1">>}
          /\ Len(CoverageWarnings("P1")) = 1

C22_TwoUnpricedReached ==
    /\ SuccessfulRun
    /\ \E i \in KnownLinks : Cardinality(UnpricedPairs(i)) = 2
    /\ Len(CoverageWarnings("P1")) = 2

C22_EmptySetReached ==
    /\ SuccessfulRun
    /\ \E i \in KnownLinks : DeclaredZones(i) # {} /\ DeclaredTiers(i) = {}
    /\ ProductPricesOnDisk = << >>
    /\ CoverageWarnings("P1") = << >>

\* The weight tiers with at least one price entry on disk for product pid.
PricedTiers(pid) == {ProductPricesOnDisk[k].weight_tier : k \in PricesOnDiskOf(pid)}

TiersNotInLinks(pid) ==
    OfKind(Naming(returned.results.fixes_needed, pid),
           {"prices exist for weight_tiers but not in links"})

TiersMatchLinks(pid) ==
    OfKind(Naming(returned.results.correct, pid), {"all price weight_tiers match links"})

\* C23: for every link of a known product, fixes_needed 'prices exist for
\* weight_tiers ... but not in links' is recorded exactly when some priced tier
\* is not declared, the correct finding exactly when the priced tiers equal
\* the declared set, never both, and neither when the priced tiers are a
\* strict subset of the declared set.
C23_PricedTiersAgainstLinks ==
    SuccessfulRun =>
        \A i \in KnownLinks :
            LET pid == LinksOnDisk[i].key
                priced == PricedTiers(pid)
                declared == DeclaredTiers(i)
            IN  /\ Len(TiersNotInLinks(pid)) = IF priced \ declared # {} THEN 1 ELSE 0
                /\ Len(TiersMatchLinks(pid)) = IF priced = declared THEN 1 ELSE 0
                /\ Len(TiersNotInLinks(pid)) + Len(TiersMatchLinks(pid)) <= 1
                /\ (priced \subseteq declared /\ priced # declared) =>
                       TiersNotInLinks(pid) = << >> /\ TiersMatchLinks(pid) = << >>
                /\ \A k \in 1..Len(TiersNotInLinks(pid)) :
                       TiersNotInLinks(pid)[k].args[2] = sorted(priced \ declared)

\* Reached: priced tiers a strict subset of the declared ones (nothing
\* recorded); a priced tier that is not declared; and equal sets.
C23_Witness ==
    /\ SuccessfulRun
    /\ \E i \in KnownLinks :
          /\ PricedTiers("P1") = {"W1"}
          /\ DeclaredTiers(i) = {"W1", "W2"}
    /\ TiersNotInLinks("P1") = << >>
    /\ TiersMatchLinks("P1") = << >>

C23_UndeclaredReached ==
    /\ SuccessfulRun
    /\ \E i \in KnownLinks :
          /\ PricedTiers("P1") = {"W1", "W2"}
          /\ DeclaredTiers(i) = {"W1"}
    /\ Len(TiersNotInLinks("P1")) = 1

C23_EqualReached ==
    /\ SuccessfulRun
    /\ \E i \in KnownLinks :
          /\ PricedTiers("P1") = {"W1", "W2"}
          /\ DeclaredTiers(i) = {"W1", "W2"}
    /\ Len(TiersMatchLinks("P1")) = 1

\* The ids of zones.json and of weight_tiers.json.
ZoneIdsOnDisk == {dir.docs.zones.zones[i].id : i \in 1..Len(dir.docs.zones.zones)}
TierIdsOnDisk == dir.docs.weight_tiers.weight_tiers.keys

\* The zones and weight tiers referenced across all links.
AllLinkZones == UNION {DeclaredZones(i) : i \in 1..Len(LinksOnDisk)}
AllLinkTiers == UNION {DeclaredTiers(i) : i \in 1..Len(LinksOnDisk)}

ZonesValid == F("All zones in links are valid", << >>)
TiersValid == F("All weight_tiers in links are valid", << >>)

\* What the aggregate check owes the correct list.
AggregateExpected ==
    (IF AllLinkZones \subseteq ZoneIdsOnDisk THEN <<ZonesValid>> ELSE << >>)
        \o (IF AllLinkTiers \subseteq TierIdsOnDisk THEN <<TiersValid>> ELSE << >>)

\* C24: the aggregate check records 'All zones in links are valid' exactly
\* when every zone referenced by a link is in zone_ids, and 'All weight_tiers
\* in links are valid' exactly when every referenced weight tier is in
\* weight_tier_ids; it adds nothing to errors, warnings or fixes_needed, and
\* an empty links map gets both.
C24_AggregateValidity ==
    SuccessfulRun =>
        /\ OfKind(returned.results.correct, {ZonesValid.kind, TiersValid.kind})
              = AggregateExpected
        /\ CollectorAfter(4).correct = CollectorAfter(3).correct \o AggregateExpected
        /\ \A c \in Categories \ {"correct"} :
              /\ CollectorAfter(4)[c] = CollectorAfter(3)[c]
              /\ OfKind(returned.results[c], {ZonesValid.kind, TiersValid.kind}) = << >>
        /\ LinksOnDisk = << >> => AggregateExpected = <<ZonesValid, TiersValid>>

\* Reached: valid zones with an unknown weight tier; an empty links map; and
\* an unknown zone with valid weight tiers.
C24_Witness ==
    /\ SuccessfulRun
    /\ AllLinkZones # {}
    /\ AggregateExpected = <<ZonesValid>>
    /\ ZonesValid \in ToSet(returned.results.correct)
    /\ TiersValid \notin ToSet(returned.results.correct)

C24_EmptyLinksReached ==
    /\ SuccessfulRun
    /\ LinksOnDisk = << >>
    /\ OfKind(returned.results.correct, {ZonesValid.kind, TiersValid.kind})
          = <<ZonesValid, TiersValid>>

C24_UnknownZoneReached ==
    /\ SuccessfulRun
    /\ AllLinkTiers # {}
    /\ OfKind(returned.results.correct, {ZonesValid.kind, TiersValid.kind}) = <<TiersValid>>

\* The per-link existence errors of the run.
ZoneErrors == OfKind(returned.results.errors, {"Zone does not exist"})
TierErrors == OfKind(returned.results.errors, {"Weight tier does not exist"})
UnknownProductErrors == OfKind(returned.results.errors, {"Product in links does not exist"})

\* C29 (as claimed): whenever the aggregate check withholds 'All zones in
\* links are valid' (or 'All weight_tiers in links are valid') the run has
\* recorded a per-link error 'Zone ... does not exist' (or 'Weight tier ...
\* does not exist'), also when the unknown id stands in the link of an id that
\* is no product.
C29_SummaryBackedByPerLinkError ==
    SuccessfulRun =>
        /\ ZonesValid \notin ToSet(returned.results.correct) => ZoneErrors # << >>
        /\ TiersValid \notin ToSet(returned.results.correct) => TierErrors # << >>

\* C29, what the code does: an unknown zone or weight tier in the link of a
\* known product is reported as a per-link error; in the link of an id that is
\* no product it is not, and that link gets the one error 'Product ... in
\* links does not exist'.  A withheld summary therefore always comes with some
\* error, though not always an existence error.
C29_SummaryBackedBySomeError ==
    SuccessfulRun =>
        /\ \A i \in KnownLinks :
              /\ \A z \in DeclaredZones(i) \ ZoneIdsOnDisk :
                    F("Zone does not exist", << <<z>>, <<LinksOnDisk[i].key>> >>)
                        \in ToSet(ZoneErrors)
              /\ \A w \in DeclaredTiers(i) \ TierIdsOnDisk :
                    F("Weight tier does not exist", << <<w>>, <<LinksOnDisk[i].key>> >>)
                        \in ToSet(TierErrors)
        /\ \A i \in UnknownLinks :
              /\ Naming(ZoneErrors, LinksOnDisk[i].key) = << >>
              /\ Naming(TierErrors, LinksOnDisk[i].key) = << >>
              /\ Len(Naming(UnknownProductErrors, LinksOnDisk[i].key)) = 1
        /\ ZonesValid \notin ToSet(returned.results.correct) =>
              ZoneErrors # << >> \/ UnknownProductErrors # << >>
        /\ TiersValid \notin ToSet(returned.results.correct) =>
              TierErrors # << >> \/ UnknownProductErrors # << >>

\* Reached: the summary withheld for an unknown zone in the link of a known
\* product; and withheld for one that stands only in the link of an unknown id.
C29_Witness ==
    /\ SuccessfulRun
    /\ ZonesValid \notin ToSet(returned.results.correct)
    /\ \E i \in KnownLinks : "Z2" \in DeclaredZones(i)
    /\ ZoneErrors # << >>

C29_UnknownProductReached ==
    /\ SuccessfulRun
    /\ ZonesValid \notin ToSet(returned.results.correct)
    /\ TiersValid \notin ToSet(returned.results.correct)
    /\ ZoneErrors = << >>
    /\ TierErrors = << >>
    /\ UnknownProductErrors # << >>

\* A step that is the second call on the instance, a validate_all that
\* follows a validate_all.
SecondValidateAll ==
    /\ FirstValidateAll
    /\ returned.done
    /\ returned'.call = "validate_all"
    /\ calls' = 2

EachTwice(res) == [c \in Categories |-> res[c] \o res[c]]

\* C27 (as claimed): a second validate_all on the same instance, the
\* directory unchanged, returns the findings of the first: nothing is appended
\* twice, whether the first call ended without errors, with rule errors or
\* with a load failure.
C27_SecondRunReturnsSame ==
    [][SecondValidateAll => returned'.results = returned.results]_vars

\* C27, what the code does: after a first call that ended with an error and
\* with data_links.json read, the second call returns the same findings; after
\* a first call without errors every rule runs again and every finding is
\* there twice; after a first call that failed on data_links.json the load is
\* tried again and its error is there twice.
C27_SecondRunRepeatsFindings ==
    [][SecondValidateAll =>
          IF dir.status[DATA_LINKS_FILE] # "ok" \/ returned.results.errors = << >>
          THEN returned'.results = EachTwice(returned.results)
          ELSE returned'.results = returned.results]_vars

\* Reached: a second call that returned every finding of an error-free run
\* twice; one that returned two load errors; one that returned the rule errors
\* of the first call once.
C27_DoubledReached ==
    /\ calls = 2
    /\ returned.call = "validate_all"
    /\ ~SomeFileBad
    /\ returned.results.errors = << >>
    /\ Len(returned.results.correct) >= 2
    /\ returned.results = EachTwice(CollectorAfter(Len(Rules)))

C27_LoadErrorTwiceReached ==
    /\ calls = 2
    /\ returned.call = "validate_all"
    /\ ran = << >>
    /\ Len(reads) = 2
    /\ returned.results.errors
          = <<F("Missing file", << <<DATA_LINKS_FILE>> >>),
              F("Missing file", << <<DATA_LINKS_FILE>> >>)>>

C27_RuleErrorsOnceReached ==
    /\ calls = 2
    /\ returned.call = "validate_all"
    /\ ~SomeFileBad
    /\ Len(reads) = Len(LoadOrder)
    /\ returned.results.errors # << >>
    /\ returned.results = ResultsOf(CollectorAfter(Len(Rules)))

\* The instance has loaded, and the load failed on some document.
AfterFailedLoad == pc = "constructed" /\ calls >= 1 /\ SomeFileBad

\* A step that is a further load_data call.
FurtherLoad == returned'.call = "load_data" /\ calls' = calls + 1

\* C28 (as claimed): after a load that failed on a missing or malformed
\* document, whichever it was, all lookup indices are empty, and a further
\* load_data call adds no finding and builds no index.
C28_FailedLoadIsFinal ==
    /\ [](AfterFailedLoad => IndicesEmpty(self))
    /\ [][(AfterFailedLoad /\ FurtherLoad) => self' = self]_vars

\* C28, what the code does: the indices stay empty after a failed load, and
\* a further load_data changes nothing when data_links was assigned; when it
\* is still None (data_links.json was the document that failed, or it holds
\* JSON null) the load is tried again and records its error once more.
C28_FailedLoadKeepsIndicesEmpty ==
    /\ [](AfterFailedLoad => IndicesEmpty(self))
    /\ [][(AfterFailedLoad /\ FurtherLoad) =>
             IF IsNone(self.data_links)
             THEN /\ self'.results.errors
                        = Append(self.results.errors,
                                 self.results.errors[Len(self.results.errors)])
                  /\ [self' EXCEPT !.results = self.results] = self
             ELSE self' = self]_vars

\* Reached: a failed load on the last document with every index empty; and
\* two loads that failed on data_links.json, each with its error.
C28_LastDocumentReached ==
    /\ AfterFailedLoad
    /\ calls = 2
    /\ returned.call = "load_data"
    /\ dir.status[DIMENSIONS_FILE] = "missing"
    /\ \A f \in RequiredFiles \ {DIMENSIONS_FILE} : dir.status[f] = "ok"
    /\ ~IsNone(self.data_links)
    /\ IndicesEmpty(self)
    /\ Len(self.results.errors) = 1

C28_ErrorTwiceReached ==
    /\ AfterFailedLoad
    /\ calls = 2
    /\ returned.call = "load_data"
    /\ dir.status[DATA_LINKS_FILE] = "malformed"
    /\ self.results.errors
          = <<F("Invalid JSON", << <<DATA_LINKS_FILE>> >>),
              F("Invalid JSON", << <<DATA_LINKS_FILE>> >>)>>

\* The known data file names, and the files the dependency entries on disk
\* describe.
KnownDataFiles == dir.mappings

DescribedFiles ==
    { DependenciesOnDisk[i].value.file :
        i \in {j \in 1..Len(DependenciesOnDisk) : "file" \in DependenciesOnDisk[j].value.keys} }

UndescribedFiles == (KnownDataFiles \ {DATA_LINKS_FILE}) \ DescribedFiles

CoverageFix == "Data files not in dependencies section"
CoverageCorrect == "All data files are covered in dependencies section"

UnknownNameKinds ==
    {"Dependency is not a known data file", "Dependency file is not a known data file"}

\* How often a name that is no known data file stands as a file value or in
\* a depends_on list.
UnknownFileValues ==
    {i \in 1..Len(DependenciesOnDisk) :
        Get(DependenciesOnDisk[i].value, "file", None) \notin KnownDataFiles}

DependsOnOf(i) == Get(DependenciesOnDisk[i].value, "depends_on", << >>)

UnknownDependsOn ==
    UNION { { <<i, k>> : k \in {n \in 1..Len(DependsOnOf(i)) :
                                   DependsOnOf(i)[n] \notin KnownDataFiles} } :
            i \in 1..Len(DependenciesOnDisk) }

\* C25: dependencies validation gives one coverage finding per run:
\* fixes_needed listing, in ascending order, every known data file other than
\* data_links.json that no entry has as its file, or correct when there is
\* none; data_links.json is never listed, and names that are no data file give
\* warnings only.
C25_DependencyCoverage ==
    SuccessfulRun =>
        /\ OfKind(returned.results.fixes_needed, {CoverageFix})
              = IF UndescribedFiles # {}
                THEN <<F(CoverageFix, << sorted(UndescribedFiles) >>)>> ELSE << >>
        /\ OfKind(returned.results.correct, {CoverageCorrect})
              = IF UndescribedFiles = {} THEN <<F(CoverageCorrect, << >>)>> ELSE << >>
        /\ \A c \in {"errors", "warnings"} :
              OfKind(returned.results[c], {CoverageFix, CoverageCorrect}) = << >>
        /\ \A i \in 1..Len(returned.results.fixes_needed) :
              returned.results.fixes_needed[i].kind = CoverageFix =>
                  DATA_LINKS_FILE \notin ToSet(returned.results.fixes_needed[i].args[1])
        /\ Len(OfKind(returned.results.warnings, UnknownNameKinds))
              = Cardinality(UnknownFileValues) + Cardinality(UnknownDependsOn)
        /\ \A c \in Categories \ {"warnings"} :
              OfKind(returned.results[c], UnknownNameKinds) = << >>
        /\ CollectorAfter(6).errors = CollectorAfter(5).errors

\* Reached: every file described but data_links.json, hence correct; some
\* files undescribed while data_links.json and an unknown file are described.
C25_Witness ==
    /\ SuccessfulRun
    /\ DescribedFiles = KnownDataFiles \ {DATA_LINKS_FILE}
    /\ OfKind(returned.results.correct, {CoverageCorrect}) # << >>

C25_UndescribedReached ==
    /\ SuccessfulRun
    /\ Cardinality(UndescribedFiles) = 2
    /\ {DATA_LINKS_FILE, "other.json"} \subseteq DescribedFiles
    /\ Len(OfKind(returned.results.fixes_needed, {CoverageFix})) = 1
    /\ Len(OfKind(returned.results.warnings, UnknownNameKinds)) > 1
    /\ returned.results.errors = << >>

\* The value of lookup_method.array on disk ("" when the key is left out),
\* and whether prices.json holds the path prices.product_prices.
ArrayOnDisk ==
    LET lookup_method == dir.docs.data_links.global_settings.lookup_method
    IN  IF "array" \in lookup_method.keys THEN lookup_method.array ELSE ""

PathOnDisk ==
    /\ "prices" \in dir.docs.prices.keys
    /\ "product_prices" \in dir.docs.prices.prices.keys

ArrayCorrect == "lookup_method.array matches actual structure"
ArrayError == "Lookup method references but structure doesn't match"
ArrayWarning == "Lookup method array path - verify"
ArrayKinds == {ArrayCorrect, ArrayError, ArrayWarning}

ArrayFindings(c) == OfKind(returned.results[c], ArrayKinds)

\* C26: the lookup_method.array check gives exactly one finding: correct when
\* the value is 'prices.product_prices' and prices.json holds that path, error
\* when the value is that literal and the path is missing, warning whenever
\* the value is anything else, whether or not the path is there.
C26_LookupArray ==
    (ValidateAllCalled /\ calls = 1 /\ returned.done /\ ~SomeFileBad) =>
        /\ Len(ArrayFindings("errors")) + Len(ArrayFindings("warnings"))
              + Len(ArrayFindings("fixes_needed")) + Len(ArrayFindings("correct")) = 1
        /\ IF ArrayOnDisk # EXPECTED_LOOKUP_ARRAY
           THEN ArrayFindings("warnings")
                   = <<F(ArrayWarning, << <<ArrayOnDisk>>, <<EXPECTED_LOOKUP_ARRAY>> >>)>>
           ELSE IF PathOnDisk
           THEN ArrayFindings("correct") = <<F(ArrayCorrect, << <<EXPECTED_LOOKUP_ARRAY>> >>)>>
           ELSE ArrayFindings("errors") = <<F(ArrayError, << <<EXPECTED_LOOKUP_ARRAY>> >>)>>

\* Reached: the literal with the path missing; another value with the path
\* missing; another value with the path present; the literal with the path.
C26_Witness ==
    /\ ValidateAllCalled /\ calls = 1
    /\ ArrayOnDisk = EXPECTED_LOOKUP_ARRAY
    /\ "prices" \in dir.docs.prices.keys
    /\ ~PathOnDisk
    /\ Len(ArrayFindings("errors")) = 1

C26_OtherValueNoPathReached ==
    /\ ValidateAllCalled /\ calls = 1
    /\ ArrayOnDisk = "prices.other"
    /\ ~PathOnDisk
    /\ Len(ArrayFindings("warnings")) = 1
    /\ ArrayFindings("errors") = << >>

C26_OtherValueReached ==
    /\ ValidateAllCalled /\ calls = 1
    /\ ArrayOnDisk = "prices"
    /\ PathOnDisk
    /\ Len(ArrayFindings("warnings")) = 1

C26_MatchReached ==
    /\ ValidateAllCalled /\ calls = 1
    /\ ArrayOnDisk = EXPECTED_LOOKUP_ARRAY
    /\ PathOnDisk
    /\ Len(ArrayFindings("correct")) = 1

\* The generator has run, and the mapped files are as it found them.
UnchangedSinceGeneration == pc = "project" /\ prev.set /\ FilesOf(dir) = prev.files

\* Some mapping has one of its two files on disk without the other.
HalfPresentMapping ==
    \E i \in 1..Len(dir.mappings) :
        path_exists(dir, dir.mappings[i].schema) # path_exists(dir, dir.mappings[i].data)

\* A step that is a run of the generator on files unchanged since its last run.
SecondGeneration ==
    /\ UnchangedSinceGeneration
    /\ returned'.call = "generate_metadata.main"
    /\ calls' = calls + 1

\* C30 (as claimed): once the generator has written metadata.json and the
\* schema and data files are unchanged, has_file_changes is False, whatever
\* subset of the mapped files is on disk, a schema without its data file
\* included; and a second run of the generator on unchanged files does not
\* rewrite metadata.json, generated_at being left out of the comparison.
C30_NoChangesAfterGeneration ==
    /\ [](UnchangedSinceGeneration => ~checksums_differ(dir))
    /\ [][SecondGeneration => dir'.metadata = dir.metadata]_vars

\* C30, what the code does: on unchanged files has_file_changes is False
\* exactly when every mapping has both of its files on disk or neither; a
\* file whose partner is missing has a checksum but no entity, and
\* has_file_changes stays True.  The second run never rewrites metadata.json.
C30_NoChangesWhenPairsComplete ==
    /\ [](UnchangedSinceGeneration => (checksums_differ(dir) <=> HalfPresentMapping))
    /\ [][SecondGeneration => dir'.metadata = dir.metadata]_vars

\* Reached: has_file_changes returned True right after a generation, with a
\* schema on disk whose data file is not; it returned False with both files
\* of a mapping on disk; and a second run left metadata.json as it was.
C30_StillChangedReached ==
    /\ UnchangedSinceGeneration
    /\ prev.wrote
    /\ returned.call = "has_file_changes"
    /\ returned.value
    /\ dir.present = {SchemaPath(1)}

C30_UnchangedReached ==
    /\ UnchangedSinceGeneration
    /\ prev.wrote
    /\ returned.call = "has_file_changes"
    /\ ~returned.value
    /\ {SchemaPath(1), DataPath(1)} \subseteq dir.present

C30_SecondRunReached ==
    /\ UnchangedSinceGeneration
    /\ calls = 2
    /\ returned.call = "generate_metadata.main"
    /\ ~prev.wrote
    /\ Readable(dir.metadata)
    /\ dir.metadata.generated_at = 1
    /\ DOMAIN dir.metadata.entities # {}

====
